---- MODULE Spec2Model ----
(***************************************************************************)
(* A model of the slot reservation and acquisition coordinator of          *)
(* slaclab/edef: EventDefinition (src/edef.py) and BSABuffer               *)
(* (src/edef/sc_buffer.py), together with the part of the IOC behind the   *)
(* EPICS variables that the two classes read and write.                    *)
(***************************************************************************)
EXTENDS Integers, FiniteSets, Sequences, TLC

(***************************************************************************)
(* Bounds of the model.                                                    *)
(***************************************************************************)
\* Number of slots of a pool (15 for EventDefinition, 29 for BSABuffer).
PoolSize == 2
\* Number of distinct desired names the clients choose from.
NumNames == 2
\* Number of passes of the reservation scan before it gives up
\* (timeout / 0.05 in the source).
MaxScans == 2

\* Reservations one client makes in a row.
MaxAttempts == 3

\* Longest list or mapping of mask names passed to a mask property.
MaxMasks == 2

\* Timeslot positions of a buffer (range(1,7) in the source: 6).
NumTimeslots == 3

\* NUM_MASK_BITS of edef.py (160 in the source): mask bits 1..NUM_MASK_BITS.
NUM_MASK_BITS_EDEF == 2
\* NUM_MASK_BITS of sc_buffer.py (9 in the source): mask bits 0..NUM_MASK_BITS.
NUM_MASK_BITS_BSA == 3
\* Number of DST selection variables clear_masks resets (range(0, 6) in the
\* source, fewer than the NUM_MASK_BITS + 1 positions of the cache).
NumDstCleared == 2
\* Upper control limit of AVGCNT and MEASCNT (2800 in the installation).
CfgHigh == 2
\* Number of distinct user callbacks a caller assigns.
NumCallbacks == 2
\* Number of distinct signal names a caller asks buffers of.
NumSignals == 2
\* Longest list of signal names passed to get_buffer.
ReqLen == 2
\* Number of checks of the data-ready flag BSABuffer.start makes before its
\* deadline expires (1 second at one check per 0.01 s in the source).
MaxStartChecks == 2
\* Number of start() calls with a completion callback that are followed.
MaxStarts == 2

(***************************************************************************)
(* Program constants.                                                      *)
(***************************************************************************)
\* First slot id of the EventDefinition pool: range(1, 16).
EdefFirst == 1
\* First slot id of the BSABuffer pool: range(21, 50).
BsaFirst == 21
\* Python's None, for a slot number that was never assigned.
None == -1
\* The name a slot carries while it is free, and the claim-name variable
\* once the IOC has consumed it.
NoName == 0
\* Lower control limit of MEASCNT: -1 means "acquire forever".
MeasLow == -1
\* Lower control limit of AVGCNT: one shot per measurement.
AvgLow == 1

\* The two contending client processes: every race in the reservation protocol
\* is between one reservation and one other party on the bus.
Clients == {1, 2}
Names == 1..NumNames
Kinds == {"EDEF", "BSA"}

VARIABLES
    kind,          \* which class the clients instantiate: "EDEF" or "BSA"
    claimName,     \* IOC:..:EDEFNAME / BSA:SYS0:1:BSANAME, NoName once consumed
    slotName,      \* EDEF:..:{num}:NAME / BSA:SYS0:1:{num}:NAME of every slot
    pc,            \* position of every client
    name,          \* desired name of a client's current reservation
    num,           \* loop variable of the reservation scan
    elapsed,       \* completed passes of the reservation scan
    number,        \* self.edef_num / self.number of the client's handle
    err,           \* the exception the reservation raised, if any
    freeAtStart,   \* history: the slots that were free when the reservation was called
    relDuring,     \* history: a slot was released while the reservation ran
    dup,           \* history: a client has used a name that is another client's
    \* The mask variables of the slot of one constructed handle.
    edefMask,      \* per field INCM / EXCM: the bits n with EDEF:..:{field}{n} = 1
    dst,           \* the bits n with BSA:SYS0:1:{num}:DST{n} = 1
    destmask,      \* BSA:SYS0:1:{num}:DESTMASK, an integer
    bit_mask_name_cache,     \* self.bit_mask_name_cache: name -> bit
    bit_mask_reverse_cache,  \* self.bit_mask_reverse_cache: bit -> name
    maskArg,       \* per field: the names of the latest write to it
    maskWritten,   \* per field: the handle has written it
    maskRead,      \* the list the latest mask read returned, as a set
    maskReadField, \* the field of the latest mask read, "none" before any
    \* The configuration variables of the observed slot and of its handle.
    focus,         \* the slot whose configuration variables are observed
    cfg,           \* per field AVGCNT / MEASCNT: the value the IOC holds
    mon,           \* per field: the value the handle's PV object has cached
    cfgExpect,     \* per field: what the latest write of the handle was clipped to
    cfgWritten,    \* per field: the handle wrote it and nobody else has since
    cfgRead,       \* the value the latest property read returned
    cfgReadField,  \* the field of the latest property read, "none" before any
    ctorVia,       \* how the handle of client 1 was built: "none", "fresh", "number"
    ctorDiffers,   \* history: the constructor arguments differed from the slot
    \* The callbacks of one constructed handle.
    cb,            \* per property: self._<p>_callback, None or a user callback
    cbIndex,       \* per property: self._<p>_callback_index
    subs,          \* per property: the live subscriptions of its PV, index -> callback
    cbPc,          \* position inside the callback setter, "idle" outside
    cbProp,        \* the property whose setter is running
    cbNew,         \* new_callback of the running setter
    cbSeen,        \* history: the kinds of assignment completed so far
    \* The acquisition of the slot of one constructed handle.
    ctrl,          \* {num}:CTRL, 1 while the slot is switched on
    cnt,           \* {num}:CNT, the acquired count
    cntmax,        \* {num}:CNTMAX, the count the running acquisition stops at
    ready,         \* {num}:HST_READY, the data-ready flag
    fw,            \* the firmware of the slot: "off" or "acquiring"
    acqPc,         \* position of the caller in start / poll / retrieve
    acqLen,        \* len() of the array get_buffer returned for one signal
    acqErr,        \* the exception the latest call raised, "none" if none
    startWaited,   \* BSABuffer.start: checks that found the flag still true
    polled,        \* what the latest is_acquisition_complete() returned
    sawComplete,   \* history: the poll loop has left since the latest start
    acqReq,        \* the pv argument of the running / latest get_buffer
    acqActual,     \* BSABuffer.get_buffer: actual_acquired
    acqBuf,        \* the dict get_buffer returned for a list: key -> len(value)
    acqFetched,    \* the names the latest get_buffer read from the bus, in order
    acqCntAtRead,  \* history: CNT when the latest get_buffer read the buffer
    acqReadyAtRead, \* history: the data-ready flag at that moment
    \* The completion callbacks start() subscribed to the acquired count.
    doneSubs,      \* the live subscriptions: [id, threshold, target]
    doneFired,     \* history, per start: how often its callback was invoked
    doneBad,       \* history: a callback was invoked at a count other than
                   \* the target of its start
    startId,       \* number of start() calls with a callback so far
    \* A "with" statement over the handle.
    withPc,        \* "none", "body", "exit", "done", "raised" or "noctx"
    withExc,       \* the block was left by an exception
    \* A client that constructs one handle after another and keeps them all.
    scenLog,       \* outcome of each finished reservation: [slot, err]
    scenFree,      \* history: the free slots of the pool at the beginning
    \* A mask property of the handle, statement by statement.
    mop,           \* the call in progress: [at, f, form, left, seen, on, bad, acc]
    mopLast,       \* history: the latest finished mask write [f, form, on, bad, err]
    \* The timeslot selection of the slot of one constructed BSABuffer.
    tslotmask,     \* BSA:SYS0:1:{num}:TSLOTMASK, an integer
    tsBits,        \* the positions ts with BSA:SYS0:1:{num}:TS{ts} = 1
    tsSet,         \* history: the latest assignment [done, arg, err, writes]
    tsGet,         \* history: the latest read [done, isList, items, mask]
    \* The bus adapter's thread that delivers change notifications.
    cbFlight,      \* the callback it has fetched and not yet called: [p, f]
    \* start(callback), statement by statement.
    stStep,         \* [i, cb, done]: the next statement, the callback, what ran
    resLog,         \* history of the reservation in progress: [wrote, seen]
    waitPc,         \* wait_for_complete: "none", "waiting", "returned" or "raised"
    acqGen,         \* history: the acquisition of the latest start: "none", "pending", "armed", "finished"
    maskDescs,      \* the .DESC of every mask bit of the slot: bit -> name
    descRead,       \* history: the latest mask read after population [done, err]
    inst           \* the constructor of client 1 after its reservation: [at, i, cb, masks]

poolVars == <<kind, claimName, slotName, pc, name, num, elapsed, number, err,
              freeAtStart, relDuring, dup>>

maskVars == <<edefMask, dst, destmask, bit_mask_name_cache,
              bit_mask_reverse_cache, maskArg, maskWritten, maskRead,
              maskReadField>>

cfgVars == <<focus, cfg, mon, cfgExpect, cfgWritten, cfgRead, cfgReadField>>

ctorVars == <<ctorVia, ctorDiffers>>

cbVars == <<cb, cbIndex, subs, cbPc, cbProp, cbNew, cbSeen>>

busAcq == <<ctrl, cnt, cntmax, ready, fw>>

callAcq == <<acqPc, acqLen, acqErr, startWaited, polled, sawComplete, acqReq,
             acqActual, acqBuf, acqFetched, acqCntAtRead, acqReadyAtRead>>

doneVars == <<doneSubs, doneFired, doneBad, startId>>

acqVars == <<busAcq, callAcq, doneVars>>

withVars == <<withPc, withExc>>

scenVars == <<scenLog, scenFree>>

mopVars == <<mop, mopLast>>

tsVars == <<tslotmask, tsBits, tsSet, tsGet>>

extVars == <<withVars, scenVars, mopVars, tsVars, cbFlight, stStep, resLog, waitPc, acqGen, maskDescs, descRead, inst>>

vars == <<poolVars, maskVars, cfgVars, ctorVars, cbVars, acqVars, extVars>>

(***************************************************************************)
(* The pool, as the IOC presents it.                                       *)
(***************************************************************************)
FirstSlot(k) == IF k = "EDEF" THEN EdefFirst ELSE BsaFirst

LastSlot(k) == FirstSlot(k) + PoolSize - 1

Slots(k) == FirstSlot(k)..LastSlot(k)

FreeSlots == {s \in DOMAIN slotName : slotName[s] = NoName}

\* IOC:..:EDEFAVAIL / BSA:SYS0:1:NFREEBSA
NumAvailable == Cardinality(FreeSlots)

check_available == NumAvailable > 0

\* A handle that takes every slot id for a reservation.
AlwaysReserved(n) == TRUE

is_reserved(n) == n # None /\ n # 0

Reserving == {"put", "scan", "final"}

(***************************************************************************)
(* The IOC consumes a claim: it gives a free slot the claimed name, or     *)
(* drops the claim when no slot is free.                                   *)
(***************************************************************************)
IocClaim ==
    /\ claimName # NoName
    /\ \/ \E s \in FreeSlots :
            slotName' = [slotName EXCEPT ![s] = claimName]
       \/ /\ FreeSlots = {}
          /\ UNCHANGED slotName
    /\ claimName' = NoName
    /\ UNCHANGED <<kind, pc, name, num, elapsed, number, err,
                   freeAtStart, relDuring, dup>>

\* The IOC frees slot s when its FREE variable is written.
IocFree(s) == [slotName EXCEPT ![s] = NoName]

(***************************************************************************)
(* reserve_edef / reserve                                                  *)
(***************************************************************************)
\* BSABuffer.reserve checks the free count before it writes the name;
\* EventDefinition.reserve_edef does not.
ChecksBeforeClaim(k) == k = "BSA"

\* The callers' convention for pairwise distinct names: name n is client
\* NameOwner(n)'s to use.
NameOwner(n) == IF n % 2 = 1 THEN 1 ELSE 2

\* The reservation of client c ends: its locals and its history are dropped.
EndReserve(c) ==
    /\ name' = [name EXCEPT ![c] = NoName]
    /\ num' = [num EXCEPT ![c] = 0]
    /\ elapsed' = [elapsed EXCEPT ![c] = 0]
    /\ freeAtStart' = [freeAtStart EXCEPT ![c] = {}]
    /\ relDuring' = [relDuring EXCEPT ![c] = FALSE]

ReserveCall(c, n) ==
    /\ pc[c] = "idle"
    /\ dup' = (dup \/ NameOwner(n) # c)
    /\ IF ChecksBeforeClaim(kind) /\ ~check_available
       THEN /\ pc' = [pc EXCEPT ![c] = "failed"]
            /\ err' = [err EXCEPT ![c] = "exhausted"]
            /\ UNCHANGED <<name, freeAtStart>>
       ELSE /\ pc' = [pc EXCEPT ![c] = "put"]
            /\ name' = [name EXCEPT ![c] = n]
            /\ freeAtStart' = [freeAtStart EXCEPT ![c] = FreeSlots]
            /\ UNCHANGED err
    /\ UNCHANGED <<kind, claimName, slotName, num, elapsed, number, relDuring>>

PutName(c) ==
    /\ pc[c] = "put"
    /\ claimName' = name[c]
    /\ pc' = [pc EXCEPT ![c] = "scan"]
    /\ num' = [num EXCEPT ![c] = FirstSlot(kind)]
    /\ elapsed' = [elapsed EXCEPT ![c] = 0]
    /\ UNCHANGED <<kind, slotName, name, number, err,
                   freeAtStart, relDuring, dup>>

\* A scan that takes the first occupied slot, whatever its name.
ScanMatchesAnyTaken(c) == slotName[num[c]] # NoName

\* A scan with the comparison inverted: it takes the first slot whose name
\* differs from the desired one.
ScanMismatches(c) == slotName[num[c]] # name[c]

ScanMatches(c) == slotName[num[c]] = name[c]

\* A wait between two scans that does not count.
TimeStandsStill(e) == e

\* "time_elapsed += 0.05" after a scan without a match, in scans.
TimeElapsed(e) == e + 1

ScanStep(c) ==
    /\ pc[c] = "scan"
    /\ IF ScanMatches(c)
       THEN /\ number' = [number EXCEPT ![c] = num[c]]
            /\ pc' = [pc EXCEPT ![c] = "ready"]
            /\ EndReserve(c)
       ELSE IF num[c] < LastSlot(kind)
       THEN /\ num' = [num EXCEPT ![c] = num[c] + 1]
            /\ UNCHANGED <<number, pc, name, elapsed, freeAtStart, relDuring>>
       ELSE IF TimeElapsed(elapsed[c]) < MaxScans
       THEN /\ num' = [num EXCEPT ![c] = FirstSlot(kind)]
            /\ elapsed' = [elapsed EXCEPT ![c] = TimeElapsed(elapsed[c])]
            /\ UNCHANGED <<number, pc, name, freeAtStart, relDuring>>
       ELSE /\ pc' = [pc EXCEPT ![c] = "final"]
            /\ num' = [num EXCEPT ![c] = 0]
            /\ elapsed' = [elapsed EXCEPT ![c] = 0]
            /\ UNCHANGED <<number, name, freeAtStart, relDuring>>
    /\ UNCHANGED <<kind, claimName, slotName, err, dup>>

\* An error after the timeout that never looks at the free count.
AlwaysTimeout == "timeout"

FinalError == IF NumAvailable < 1 THEN "exhausted" ELSE "timeout"

FinalCheck(c) ==
    /\ pc[c] = "final"
    /\ err' = [err EXCEPT ![c] = FinalError]
    /\ pc' = [pc EXCEPT ![c] = "failed"]
    /\ EndReserve(c)
    /\ UNCHANGED <<kind, claimName, slotName, number, dup>>

(***************************************************************************)
(* release                                                                 *)
(***************************************************************************)
\* A release that always frees the first slot of the pool.
ReleaseFirstSlot(c) == FirstSlot(kind)

ReleaseTarget(c) == number[c]

Release(c) ==
    /\ pc[c] = "ready"
    /\ is_reserved(number[c])
    /\ slotName' = IocFree(ReleaseTarget(c))
    /\ pc' = [pc EXCEPT ![c] = "released"]
    /\ relDuring' = [d \in Clients |-> pc[d] \in Reserving]
    /\ UNCHANGED <<kind, claimName, name, num, elapsed, number, err,
                   freeAtStart, dup>>

\* The client forgets a handle that was released or never obtained.
Drop(c) ==
    /\ pc[c] \in {"released", "failed"}
    /\ pc' = [pc EXCEPT ![c] = "idle"]
    /\ number' = [number EXCEPT ![c] = None]
    /\ err' = [err EXCEPT ![c] = "none"]
    /\ UNCHANGED <<kind, claimName, slotName, name, num, elapsed,
                   freeAtStart, relDuring, dup>>

\* The process of client c dies while it holds its slot: the handle takes no
\* further step, and no finalizer of the class writes FREE.
Crash(c) ==
    /\ pc[c] = "ready"
    /\ pc' = [pc EXCEPT ![c] = "crashed"]
    /\ UNCHANGED <<kind, claimName, slotName, name, num, elapsed, number, err,
                   freeAtStart, relDuring, dup>>

InitClients ==
    /\ claimName = NoName
    /\ pc = [c \in Clients |-> "idle"]
    /\ name = [c \in Clients |-> NoName]
    /\ num = [c \in Clients |-> 0]
    /\ elapsed = [c \in Clients |-> 0]
    /\ number = [c \in Clients |-> None]
    /\ err = [c \in Clients |-> "none"]
    /\ freeAtStart = [c \in Clients |-> {}]
    /\ relDuring = [c \in Clients |-> FALSE]
    /\ dup = FALSE

InitPool ==
    /\ kind \in Kinds
    /\ slotName = [s \in Slots(kind) |-> NoName]
    /\ InitClients

(***************************************************************************)
(* Bit masks: the name cache, the mask writes and the mask reads.          *)
(***************************************************************************)
\* The bit positions the cache of a handle covers.
MaskBits(k) ==
    IF k = "EDEF" THEN 1..NUM_MASK_BITS_EDEF ELSE 0..NUM_MASK_BITS_BSA

\* The .DESC of mask bit b: the name of the bit.
MaskDesc(b) == 100 + b

MaskNames(k) == {MaskDesc(b) : b \in MaskBits(k)}

MaskFields(k) == IF k = "EDEF" THEN {"INCM", "EXCM"} ELSE {"DST"}

\* populate_bit_mask_name_cache: name -> bit, from the descriptor of every bit.
PopulatedNameCache(k) ==
    [nm \in MaskNames(k) |-> CHOOSE b \in MaskBits(k) : MaskDesc(b) = nm]

\* populate_bit_mask_name_cache: bit -> name.
PopulatedReverseCache(k) == [b \in MaskBits(k) |-> MaskDesc(b)]

EmptyCache == [x \in {} |-> 0]

\* The caches after "if len(cache) == 0: self.populate_bit_mask_name_cache()".
NameCacheAfterCheck(checked) ==
    IF DOMAIN checked = {} THEN PopulatedNameCache(kind) ELSE bit_mask_name_cache

ReverseCacheAfterCheck(checked) ==
    IF DOMAIN checked = {} THEN PopulatedReverseCache(kind)
    ELSE bit_mask_reverse_cache

\* Bit n of the integer m: m & (1 << n), as 0 or 1.
BitOf(m, n) == (m \div (2 ^ n)) % 2

\* m | (1 << n)
OrBit(m, n) == IF BitOf(m, n) = 1 THEN m ELSE m + 2 ^ n

RECURSIVE OrBits(_, _)
OrBits(m, bits) ==
    IF bits = {} THEN m
    ELSE LET b == CHOOSE x \in bits : TRUE
         IN  OrBits(OrBit(m, b), bits \ {b})

\* The bits the names of a list resolve to.
BitsOfNames(cache, masks) == {cache[nm] : nm \in masks}

\* EventDefinition.set_masks, list form: the variable of every listed name is
\* written 1; no other variable of the field is written.
EdefBitsAfterSet(old, cache, masks) == old \cup BitsOfNames(cache, masks)

\* BSABuffer.clear_masks: the DST selection variables that are reset.
ClearedDst == 0..(NumDstCleared - 1)

\* BSABuffer.destination_masks setter, list form: DST{n} after the write.
DstAfterSet(old, cache, masks) ==
    (old \ ClearedDst) \cup BitsOfNames(cache, masks)

\* BSABuffer.destination_masks setter, list form: DESTMASK after the write.
DestmaskAfterSet(cache, masks) == OrBits(0, BitsOfNames(cache, masks))

\* EventDefinition.get_masks
EdefGetMasks(bits, reverse) ==
    {reverse[b] : b \in {n \in 1..NUM_MASK_BITS_EDEF : n \in bits}}

\* BSABuffer.destination_masks getter
BsaGetMasks(m, reverse) ==
    {reverse[b] : b \in {n \in DOMAIN reverse : BitOf(m, n) # 0}}

\* inclusion_masks = masks / exclusion_masks = masks / destination_masks = masks
SetMasks(f, masks) ==
    /\ f \in MaskFields(kind)
    /\ LET cache == NameCacheAfterCheck(bit_mask_name_cache)
       IN  /\ bit_mask_name_cache' = cache
           /\ bit_mask_reverse_cache' =
                  ReverseCacheAfterCheck(bit_mask_name_cache)
           /\ IF kind = "EDEF"
              THEN /\ edefMask' = [edefMask EXCEPT
                                     ![f] = EdefBitsAfterSet(@, cache, masks)]
                   /\ UNCHANGED <<dst, destmask>>
              ELSE /\ dst' = DstAfterSet(dst, cache, masks)
                   /\ destmask' = DestmaskAfterSet(cache, masks)
                   /\ UNCHANGED edefMask
    /\ maskArg' = [maskArg EXCEPT ![f] = masks]
    /\ maskWritten' = [maskWritten EXCEPT ![f] = TRUE]
    /\ maskRead' = {}
    /\ maskReadField' = "none"

\* masks = inclusion_masks / exclusion_masks / destination_masks
GetMasks(f) ==
    /\ f \in MaskFields(kind)
    /\ LET reverse == ReverseCacheAfterCheck(bit_mask_reverse_cache)
       IN  /\ bit_mask_reverse_cache' = reverse
           /\ bit_mask_name_cache' =
                  NameCacheAfterCheck(bit_mask_reverse_cache)
           /\ maskRead' = IF kind = "EDEF"
                          THEN EdefGetMasks(edefMask[f], reverse)
                          ELSE BsaGetMasks(destmask, reverse)
    /\ maskReadField' = f
    /\ UNCHANGED <<edefMask, dst, destmask, maskArg, maskWritten>>

InitMasks ==
    /\ edefMask = [f \in {"INCM", "EXCM"} |-> {}]
    /\ dst = {}
    /\ destmask = 0
    /\ bit_mask_name_cache = EmptyCache
    /\ bit_mask_reverse_cache = EmptyCache
    /\ maskArg = [f \in {"INCM", "EXCM", "DST"} |-> {}]
    /\ maskWritten = [f \in {"INCM", "EXCM", "DST"} |-> FALSE]
    /\ maskRead = {}
    /\ maskReadField = "none"


(***************************************************************************)
(* n_avg and n_measurements: clipped writes, cached reads.                 *)
(***************************************************************************)
CfgFields == {"AVGCNT", "MEASCNT"}

\* get_ctrlvars()['lower_ctrl_limit']
Lopr(f) == IF f = "AVGCNT" THEN AvgLow ELSE MeasLow

\* get_ctrlvars()['upper_ctrl_limit']
Hopr(f) == CfgHigh

Min(a, b) == IF a < b THEN a ELSE b

Max(a, b) == IF a > b THEN a ELSE b

\* min(hopr, max(lopr, v))
Clipped(f, v) == Min(Hopr(f), Max(Lopr(f), v))

\* The values a caller passes: the limits and one step beyond them.
CfgArgs(f) == (Lopr(f) - 1)..(Hopr(f) + 1)

\* The values the record of a field holds.
CfgValues(f) == Lopr(f)..Hopr(f)

\* The IOC's values after self.n_avg_pv.put(...) has been processed.
CfgAfterSet(old, f, v) == [old EXCEPT ![f] = Clipped(f, v)]

\* self.n_avg = v / self.n_measurements = v: the put does not wait, and the
\* PV object keeps its cached value until the monitor event arrives.
SetCount(f, v) ==
    /\ cfg' = CfgAfterSet(cfg, f, v)
    /\ cfgExpect' = [cfgExpect EXCEPT ![f] = Clipped(f, v)]
    /\ cfgWritten' = [cfgWritten EXCEPT ![f] = TRUE]
    /\ cfgRead' = 0
    /\ cfgReadField' = "none"
    /\ UNCHANGED <<focus, mon>>

\* self.n_avg / self.n_measurements: PV.get() of an auto-monitored PV.
GetCount(f) ==
    /\ cfgRead' = mon[f]
    /\ cfgReadField' = f
    /\ UNCHANGED <<focus, cfg, mon, cfgExpect, cfgWritten>>

\* The monitor event of a field reaches the PV object of the handle.
MonitorEvent(f) ==
    /\ mon[f] # cfg[f]
    /\ mon' = [mon EXCEPT ![f] = cfg[f]]
    /\ UNCHANGED <<focus, cfg, cfgExpect, cfgWritten, cfgRead, cfgReadField>>

\* Another party on the bus writes a field of the slot (caput).
EnvConfig(f, v) ==
    /\ v \in CfgValues(f)
    /\ v # cfg[f]
    /\ cfg' = [cfg EXCEPT ![f] = v]
    /\ cfgWritten' = [cfgWritten EXCEPT ![f] = FALSE]
    /\ UNCHANGED <<focus, mon, cfgExpect, cfgRead, cfgReadField>>

InitCounts ==
    /\ cfg = [f \in CfgFields |-> Lopr(f)]
    /\ mon = cfg
    /\ cfgExpect = [f \in CfgFields |-> 0]
    /\ cfgWritten = [f \in CfgFields |-> FALSE]
    /\ cfgRead = 0
    /\ cfgReadField = "none"
    /\ ctorVia = "none"
    /\ ctorDiffers = FALSE

InitCfg == focus = FirstSlot(kind) /\ InitCounts


(***************************************************************************)
(* The callback properties: ctrl_callback, avg_callback,                   *)
(* measurements_callback and, for EventDefinition, beamcode_callback.      *)
(***************************************************************************)
Callbacks == 1..NumCallbacks

CbProps(k) ==
    IF k = "EDEF" THEN {"ctrl", "avg", "measurements", "beamcode"}
    ELSE {"ctrl", "avg", "measurements"}

AllCbProps == {"ctrl", "avg", "measurements", "beamcode"}

NoSubs == [i \in {} |-> None]

\* PV.add_callback: the index of the new subscription.
AddIndex(live) ==
    IF DOMAIN live = {} THEN 1
    ELSE 1 + (CHOOSE i \in DOMAIN live : \A j \in DOMAIN live : j <= i)

\* PV.add_callback
AddSub(live, f) ==
    [i \in DOMAIN live \cup {AddIndex(live)} |->
        IF i \in DOMAIN live THEN live[i] ELSE f]

\* PV.remove_callback
RemoveSub(live, index) == [i \in DOMAIN live \ {index} |-> live[i]]

\* A setter that never removes the previous subscription.
NeverRemoves(old) == FALSE

\* "if self._ctrl_callback is not None:" before remove_callback
RemovesOld(old) == old # None

\* "if new_callback == self._ctrl_callback: return"
CbCall(p, new) ==
    /\ cbPc = "idle"
    /\ p \in CbProps(kind)
    /\ IF new = cb[p]
       THEN /\ cbSeen' = IF new = None THEN cbSeen ELSE cbSeen \cup {"same"}
            /\ UNCHANGED <<cbPc, cbProp, cbNew>>
       ELSE /\ cbPc' = "remove"
            /\ cbProp' = p
            /\ cbNew' = new
            /\ UNCHANGED cbSeen
    /\ UNCHANGED <<cb, cbIndex, subs>>

\* "self.ctrl_pv.remove_callback(self._ctrl_callback_index)"
CbRemove ==
    /\ cbPc = "remove"
    /\ subs' = IF RemovesOld(cb[cbProp])
               THEN [subs EXCEPT ![cbProp] = RemoveSub(@, cbIndex[cbProp])]
               ELSE subs
    /\ cbPc' = "store"
    /\ UNCHANGED <<cb, cbIndex, cbProp, cbNew, cbSeen>>

\* "self._ctrl_callback = new_callback"
CbStore ==
    /\ cbPc = "store"
    /\ cb' = [cb EXCEPT ![cbProp] = cbNew]
    /\ cbSeen' = IF cb[cbProp] = None THEN cbSeen
                 ELSE cbSeen \cup {IF cbNew = None THEN "none" ELSE "replace"}
    /\ cbPc' = "add"
    /\ UNCHANGED <<cbIndex, subs, cbProp, cbNew>>

\* "if new_callback is not None: ... index = self.ctrl_pv.add_callback(full_cb)"
CbAdd ==
    /\ cbPc = "add"
    /\ IF cbNew # None
       THEN /\ subs' = [subs EXCEPT ![cbProp] = AddSub(@, cbNew)]
            /\ cbIndex' = [cbIndex EXCEPT ![cbProp] = AddIndex(subs[cbProp])]
       ELSE UNCHANGED <<subs, cbIndex>>
    /\ cbPc' = "idle"
    /\ cbNew' = None
    /\ UNCHANGED <<cb, cbProp, cbSeen>>

InitCb ==
    /\ cb = [p \in AllCbProps |-> None]
    /\ cbIndex = [p \in AllCbProps |-> None]
    /\ subs = [p \in AllCbProps |-> NoSubs]
    /\ cbPc = "idle"
    /\ cbProp = "ctrl"
    /\ cbNew = None
    /\ cbSeen = {}


(***************************************************************************)
(* Acquisition: start, is_acquisition_complete, get_buffer, and the        *)
(* firmware that counts.                                                   *)
(***************************************************************************)
\* Length of the history buffer of a signal: as many points as the upper
\* limit of MEASCNT.
BufLen == CfgHigh

\* The count an acquisition stops at: pulses (measurements * averages) for an
\* event definition, measurements for a BSA buffer.
TargetCount ==
    IF kind = "EDEF" THEN cfg["MEASCNT"] * cfg["AVGCNT"] ELSE cfg["MEASCNT"]

\* The firmware notices CTRL = 1 and arms the acquisition.
FwArm ==
    /\ ctrl = 1
    /\ fw = "off"
    /\ fw' = "acquiring"
    /\ cnt' = 0
    /\ cntmax' = TargetCount
    /\ ready' = FALSE
    /\ UNCHANGED <<ctrl, callAcq>>

\* The firmware acquires one more point; a rolling acquisition (count -1)
\* keeps filling the buffer.
FwTick ==
    /\ fw = "acquiring"
    /\ IF cntmax < 0 THEN cnt < BufLen ELSE cnt < cntmax
    /\ cnt' = cnt + 1
    /\ UNCHANGED <<ctrl, cntmax, ready, fw, callAcq>>

\* The firmware has acquired the count it was armed with.
FwDone ==
    /\ fw = "acquiring"
    /\ cnt = cntmax
    /\ fw' = "off"
    /\ ctrl' = 0
    /\ ready' = TRUE
    /\ UNCHANGED <<cnt, cntmax, callAcq>>

\* A completion check that looks at the control state, as the docstring of
\* EventDefinition.is_acquisition_complete describes it.
CompleteWhenOff == ctrl = 0

\* is_acquisition_complete: CNT == CNTMAX for an event definition, the
\* data-ready flag for a BSA buffer.
is_acquisition_complete ==
    IF kind = "EDEF" THEN cnt = cntmax ELSE ready

\* A call that raised: nothing else of the caller changes.
Raise(e) ==
    /\ acqPc' = "failed"
    /\ acqErr' = e
    /\ UNCHANGED <<acqLen, startWaited, polled, sawComplete, acqReq, acqActual,
                   acqBuf, acqFetched, acqCntAtRead, acqReadyAtRead>>

\* The threshold start() hands to _done_callback: EventDefinition captures
\* num_to_acquire_pv.get(), BSABuffer passes none.
DoneThreshold == IF kind = "EDEF" THEN cntmax ELSE None

\* "if callback is not None: ... self.num_acquired_pv.add_callback(full_done_cb)"
DoneSubscribe(callback) ==
    IF callback = None
    THEN UNCHANGED doneVars
    ELSE /\ startId' = startId + 1
         /\ doneSubs' = doneSubs \cup {[id |-> startId + 1,
                                        threshold |-> DoneThreshold,
                                        target |-> TargetCount]}
         /\ UNCHANGED <<doneFired, doneBad>>

\* start(callback): EventDefinition returns after the write to CTRL;
\* BSABuffer goes on to wait for the data-ready flag to drop.
Start(c, callback) ==
    /\ acqPc = "idle"
    /\ IF ~is_reserved(number[c])
       THEN Raise("NotReserved") /\ UNCHANGED <<busAcq, doneVars>>
       ELSE /\ DoneSubscribe(callback)
            /\ ctrl' = 1
            /\ acqPc' = IF kind = "EDEF" THEN "started" ELSE "starting"
            /\ startWaited' = 0
            /\ polled' = "none"
            /\ sawComplete' = FALSE
            /\ UNCHANGED <<cnt, cntmax, ready, fw, acqLen, acqErr, acqReq,
                           acqActual, acqBuf, acqFetched, acqCntAtRead,
                           acqReadyAtRead>>

\* _done_callback invokes the user's callback: EventDefinition only when the
\* value equals the captured threshold, BSABuffer on every event.
DoneFires(sub, value) == kind = "BSA" \/ value = sub.threshold

\* A monitor event of the acquired count reaches the completion callbacks:
\* those that invoke the user's callback then remove themselves.
DeliverCnt(value) ==
    LET fires == {sub \in doneSubs : DoneFires(sub, value)}
    IN  /\ doneSubs' = doneSubs \ fires
        /\ doneFired' = [i \in DOMAIN doneFired |->
                            IF \E sub \in fires : sub.id = i
                            THEN Min(doneFired[i] + 1, 2) ELSE doneFired[i]]
        /\ doneBad' = (doneBad \/ \E sub \in fires : value # sub.target)
        /\ UNCHANGED startId

\* BSABuffer.stop(): the write of 0 to CTRL.
Stop(c) ==
    /\ acqPc \in {"idle", "started", "complete"}
    /\ IF ~is_reserved(number[c])
       THEN Raise("NotReserved") /\ UNCHANGED busAcq
       ELSE /\ ctrl' = 0
            /\ UNCHANGED <<cnt, cntmax, ready, fw, callAcq>>
    /\ UNCHANGED doneVars

\* The firmware notices CTRL = 0 and ends the acquisition.
FwHalt ==
    /\ fw = "acquiring"
    /\ ctrl = 0
    /\ fw' = "off"
    /\ ready' = TRUE
    /\ UNCHANGED <<ctrl, cnt, cntmax, callAcq>>

\* A start that never waits for the flag.
StartNeverWaits == FALSE

\* BSABuffer.start: the condition of "while self.is_acquisition_complete():".
StartMustWait == is_acquisition_complete

\* BSABuffer.start: one check of the flag, and when it is still true the sleep
\* and the test of the deadline.
StartConfirm ==
    /\ acqPc = "starting"
    /\ IF ~StartMustWait
       THEN acqPc' = "started" /\ UNCHANGED <<startWaited, acqErr>>
       ELSE IF startWaited + 1 >= MaxStartChecks
            THEN /\ acqPc' = "failed"
                 /\ acqErr' = "StartFailed"
                 /\ startWaited' = startWaited + 1
            ELSE /\ startWaited' = startWaited + 1
                 /\ UNCHANGED <<acqPc, acqErr>>
    /\ UNCHANGED <<busAcq, acqLen, polled, sawComplete, acqReq, acqActual,
                   acqBuf, acqFetched, acqCntAtRead, acqReadyAtRead>>

\* One is_acquisition_complete() of the caller's poll loop; the loop leaves
\* once it is True.
PollComplete(c) ==
    /\ acqPc \in {"idle", "started"}
    /\ IF ~is_reserved(number[c])
       THEN Raise("NotReserved")
       ELSE /\ polled' = IF is_acquisition_complete THEN "true" ELSE "false"
            /\ acqPc' = IF acqPc = "started" /\ is_acquisition_complete
                         THEN "complete" ELSE acqPc
            /\ sawComplete' = (acqPc = "started" /\ is_acquisition_complete)
            /\ UNCHANGED <<acqLen, acqErr, startWaited, acqReq, acqActual,
                           acqBuf, acqFetched, acqCntAtRead, acqReadyAtRead>>
    /\ UNCHANGED busAcq

(***************************************************************************)
(* get_buffer: the names of the buffer variables, the read, the trimming   *)
(* and the re-keying.  Names are sequences of character codes.             *)
(***************************************************************************)
\* suffix='HST'
SuffixHST == <<72, 83, 84>>

RECURSIVE Digits(_)
Digits(n) == IF n < 10 THEN <<48 + n>> ELSE Digits(n \div 10) \o <<48 + (n % 10)>>

\* str(self.edef_num) / the {num} of str.format: "None" for None.
Str(n) == IF n = None THEN <<78, 111, 110, 101>> ELSE Digits(n)

\* The signal names a caller passes: "X", "X1", "X11", ...
SignalName(k) == [i \in 1..k |-> IF i = 1 THEN 88 ELSE 49]

Signals == {SignalName(k) : k \in 1..NumSignals}

SignalLists == UNION {[1..k -> Signals] : k \in 0..ReqLen}

\* The pv argument of get_buffer: one name (a string) or a list of names.
Requests ==
    {[single |-> TRUE, names |-> <<sig>>] : sig \in Signals}
        \cup {[single |-> FALSE, names |-> q] : q \in SignalLists}

NoRequest == [single |-> TRUE, names |-> <<>>]

\* buffer_pv: "{pv}{suffix}{num}"
buffer_pv(pv, suffix, n) == pv \o suffix \o Str(n)

\* [self.buffer_pv(pv=a_pv, suffix=suffix) for a_pv in pv]
PvList(names, suffix, n) ==
    [i \in 1..Len(names) |-> buffer_pv(names[i], suffix, n)]

\* len(suffix + str(self.edef_num))
SuffixLength(suffix, n) == Len(suffix \o Str(n))

\* a_pv[:-suffix_length]
StripSuffix(a_pv, k) == SubSeq(a_pv, 1, Len(a_pv) - k)

Range(q) == {q[i] : i \in DOMAIN q}

\* {a_pv[:-suffix_length]: buff_dict[a_pv][0:n] for a_pv in buff_dict}, as
\* key -> len(value); buff_dict has one entry per name that was read.
ReKeyed(pvs, k, len) ==
    [key \in {StripSuffix(a_pv, k) : a_pv \in Range(pvs)} |-> len]

NoBuf == [key \in {} |-> 0]

\* "if self.n_measurements > 0:"
TrimsToCount(n) == n > 0

\* EventDefinition.get_buffer of one signal: len(buff[0:self.n_measurements])
\* or len(buff).
EdefBufferLen(n) == IF TrimsToCount(n) THEN Min(n, BufLen) ELSE BufLen

\* BSABuffer.get_buffer of one signal: len(buff[0:actual_acquired]).
BsaBufferLen(actual) == Min(Max(actual, 0), BufLen)

\* The read of the buffers and the value get_buffer returns, every array
\* trimmed to len.
ReadBuffers(c, req, len) ==
    /\ acqFetched' = PvList(req.names, SuffixHST, number[c])
    /\ acqLen' = IF req.single THEN len ELSE 0
    /\ acqBuf' = IF req.single THEN NoBuf
                 ELSE ReKeyed(PvList(req.names, SuffixHST, number[c]),
                              SuffixLength(SuffixHST, number[c]), len)
    /\ acqCntAtRead' = cnt
    /\ acqReadyAtRead' = ready
    /\ acqPc' = "retrieved"

\* get_buffer(pv): EventDefinition reads and trims at once; BSABuffer first
\* reads actual_acquired, then waits for the data-ready flag.
GetBuffer(c, req) ==
    /\ acqPc \in {"started", "complete"}
    /\ acqReq' = req
    /\ IF kind = "EDEF"
       THEN /\ ReadBuffers(c, req, EdefBufferLen(mon["MEASCNT"]))
            /\ UNCHANGED acqActual
       ELSE /\ acqActual' = cnt
            /\ acqPc' = "counted"
            /\ UNCHANGED <<acqLen, acqBuf, acqFetched, acqCntAtRead,
                           acqReadyAtRead>>
    /\ UNCHANGED <<busAcq, acqErr, startWaited, polled, sawComplete>>

\* "if actual_acquired > 0:" before the wait for the data-ready flag.
WaitsReady(actual) == actual > 0

\* BSABuffer.get_buffer once "while not self.is_acquisition_complete()" has
\* left, or at once when no point was acquired: read, trim, re-key.
GetBufferRead(c) ==
    /\ acqPc = "counted"
    /\ WaitsReady(acqActual) => is_acquisition_complete
    /\ ReadBuffers(c, acqReq, BsaBufferLen(acqActual))
    /\ UNCHANGED <<busAcq, acqErr, startWaited, polled, sawComplete, acqReq,
                   acqActual>>

\* release(): rejected on a handle without a slot id, else the write to FREE.
\* The handle keeps its slot id afterwards.
release(c) ==
    /\ pc[c] \in {"ready", "released"}
    /\ acqPc \in {"idle", "started", "complete"}
    /\ IF ~is_reserved(number[c])
       THEN Raise("NotReserved") /\ UNCHANGED <<slotName, pc>>
       ELSE /\ slotName' = IocFree(ReleaseTarget(c))
            /\ pc' = [pc EXCEPT ![c] = "released"]
            /\ UNCHANGED callAcq
    /\ UNCHANGED <<kind, claimName, name, num, elapsed, number, err,
                   freeAtStart, relDuring, dup, busAcq, doneVars>>

\* The caller stops following the acquisition it started.
Leave ==
    /\ acqPc \in {"started", "complete"}
    /\ acqPc' = "idle"
    /\ polled' = "none"
    /\ sawComplete' = FALSE
    /\ UNCHANGED <<busAcq, acqLen, acqErr, startWaited, acqReq, acqActual,
                   acqBuf, acqFetched, acqCntAtRead, acqReadyAtRead>>

\* The caller is done with the data, or with the exception a call raised.
Finish ==
    /\ acqPc \in {"retrieved", "failed"}
    /\ acqPc' = "idle"
    /\ acqLen' = 0
    /\ acqErr' = "none"
    /\ startWaited' = 0
    /\ polled' = "none"
    /\ sawComplete' = FALSE
    /\ acqReq' = NoRequest
    /\ acqActual' = 0
    /\ acqBuf' = NoBuf
    /\ acqFetched' = <<>>
    /\ acqCntAtRead' = 0
    /\ acqReadyAtRead' = FALSE
    /\ UNCHANGED busAcq

InitWith ==
    /\ withPc = "none"
    /\ withExc = FALSE

\* No handle was kept from an earlier reservation.
InitKept ==
    /\ scenLog = <<>>
    /\ scenFree = 0

\* No mask property is being read or written.
MopIdle ==
    [at |-> "idle", f |-> "none", form |-> "none", left |-> 0, seen |-> {},
     on |-> {}, bad |-> FALSE, acc |-> 0, was |-> <<>>]

InitMop ==
    /\ mop = MopIdle
    /\ mopLast = [f |-> "none", form |-> "none", on |-> {}, bad |-> FALSE,
                  same |-> TRUE,
                  err |-> "none"]

\* range(1,7)
Timeslots == 1..NumTimeslots

\* The values TSLOTMASK can hold.
TslotMasks == 0..(2 ^ NumTimeslots - 1)

\* No timeslot property has been assigned or read.
InitTs ==
    /\ tslotmask = 0
    /\ tsBits = {ts \in Timeslots : BitOf(tslotmask, ts - 1) = 1}
    /\ tsSet = [done |-> FALSE, arg |-> {}, err |-> "none",
                writes |-> [ts \in Timeslots |-> <<>>]]
    /\ tsGet = [done |-> FALSE, isList |-> FALSE, items |-> {}, mask |-> 0]

NoFlight == [p |-> "none", f |-> None]

\* No start() is being executed.
NoStart == [i |-> 0, cb |-> None, done |-> {}]

\* No reservation is being followed.
NoResLog == [wrote |-> FALSE, seen |-> {}]

\* The variables of the later sections, at rest.
InitLate ==
    /\ resLog = NoResLog
    /\ waitPc = "none"
    /\ acqGen = "none"
    /\ maskDescs = EmptyCache
    /\ descRead = [done |-> FALSE, err |-> "none"]
    /\ inst = [at |-> "idle", i |-> 0, cb |-> None, masks |-> "none"]

InitExt ==
    /\ InitLate
    /\ InitWith /\ InitKept /\ InitMop /\ InitTs
    /\ cbFlight = NoFlight
    /\ stStep = NoStart

InitAcq ==
    /\ ctrl = 0
    /\ cnt = 0
    /\ cntmax = 0
    /\ ready = FALSE
    /\ fw = "off"
    /\ acqPc = "idle"
    /\ acqLen = 0
    /\ acqErr = "none"
    /\ startWaited = 0
    /\ polled = "none"
    /\ sawComplete = FALSE
    /\ acqReq = NoRequest
    /\ acqActual = 0
    /\ acqBuf = NoBuf
    /\ acqFetched = <<>>
    /\ acqCntAtRead = 0
    /\ acqReadyAtRead = FALSE
    /\ doneSubs = {}
    /\ doneFired = [i \in 1..MaxStarts |-> 0]
    /\ doneBad = FALSE
    /\ startId = 0


(***************************************************************************)
(* The constructor: __init__ of EventDefinition and of BSABuffer.          *)
(***************************************************************************)
\* The name other users of the pool gave the slots they hold.
OtherName == NumNames + 1

\* A mask argument that was not given (inclusion_masks=None).
NoMasks == {None}

\* The mask arguments a constructor is called with: none, the empty list, or
\* the name of the lowest bit of the field.
MaskArgs(k) ==
    {NoMasks, {}, {MaskDesc(CHOOSE b \in MaskBits(k) : \A d \in MaskBits(k) : b <= d)}}

\* A constructor that writes its arguments to the slot whatever it was given.
AlwaysConfigures(numberArg) == TRUE

\* "if edef_number is None:" / "if number is None:" around the initial writes.
ConfiguresOnConstruct(numberArg) == numberArg = None

\* A field of the slot after "if masks is not None: self.<field> = masks".
EdefMaskAfterCtor(old, cache, arg) ==
    IF arg = NoMasks THEN old ELSE EdefBitsAfterSet(old, cache, arg)

\* The initial writes of the constructor: n_avg, n_measurements and the masks
\* that were given.
CtorWrites(avg, meas, inc, exc) ==
    /\ cfg' = CfgAfterSet(CfgAfterSet(cfg, "AVGCNT", avg), "MEASCNT", meas)
    /\ LET given == IF kind = "EDEF" THEN inc # NoMasks \/ exc # NoMasks
                    ELSE inc # NoMasks
           cache == IF given THEN NameCacheAfterCheck(bit_mask_name_cache)
                    ELSE bit_mask_name_cache
       IN  /\ bit_mask_name_cache' = cache
           /\ bit_mask_reverse_cache' =
                  IF given THEN ReverseCacheAfterCheck(bit_mask_name_cache)
                  ELSE bit_mask_reverse_cache
           /\ IF kind = "EDEF"
              THEN /\ edefMask' =
                          [INCM |-> EdefMaskAfterCtor(edefMask["INCM"], cache, inc),
                           EXCM |-> EdefMaskAfterCtor(edefMask["EXCM"], cache, exc)]
                   /\ UNCHANGED <<dst, destmask>>
              ELSE /\ dst' = IF given THEN DstAfterSet(dst, cache, inc) ELSE dst
                   /\ destmask' = IF given THEN DestmaskAfterSet(cache, inc)
                                  ELSE destmask
                   /\ UNCHANGED edefMask

NoCtorWrites ==
    UNCHANGED <<cfg, bit_mask_name_cache, bit_mask_reverse_cache, edefMask,
                dst, destmask>>

\* The constructor arguments differ from what the slot holds.
ArgsDiffer(avg, meas, inc) ==
    /\ Clipped("AVGCNT", avg) # cfg["AVGCNT"]
    /\ Clipped("MEASCNT", meas) # cfg["MEASCNT"]
    /\ inc # NoMasks
    /\ IF kind = "EDEF"
       THEN ~(BitsOfNames(PopulatedNameCache(kind), inc) \subseteq edefMask["INCM"])
       ELSE DestmaskAfterSet(PopulatedNameCache(kind), inc) # destmask

\* EventDefinition(name, edef_number=s, ...) / BSABuffer(name, number=s, ...):
\* the whole constructor, which neither claims nor scans.
Attach(c, s, avg, meas, inc, exc) ==
    /\ pc[c] = "idle"
    /\ s = focus
    /\ pc' = [pc EXCEPT ![c] = "ready"]
    /\ number' = [number EXCEPT ![c] = s]
    /\ IF ConfiguresOnConstruct(s)
       THEN CtorWrites(avg, meas, inc, exc)
       ELSE NoCtorWrites
    /\ ctorVia' = "number"
    /\ ctorDiffers' = ArgsDiffer(avg, meas, inc)
    /\ UNCHANGED <<kind, claimName, slotName, name, num, elapsed, err,
                   freeAtStart, relDuring, dup>>
    /\ UNCHANGED <<focus, mon, cfgExpect, cfgWritten, cfgRead, cfgReadField>>
    /\ UNCHANGED <<maskArg, maskWritten, maskRead, maskReadField>>
    /\ UNCHANGED <<cbVars, acqVars, extVars>>

\* The rest of the constructor once reserve_edef / reserve has returned the
\* slot: the initial writes.
Configure(c, avg, meas, inc, exc) ==
    /\ pc[c] = "ready"
    /\ ctorVia = "none"
    /\ number[c] = focus
    /\ IF ConfiguresOnConstruct(None)
       THEN CtorWrites(avg, meas, inc, exc)
       ELSE NoCtorWrites
    /\ ctorVia' = "fresh"
    /\ ctorDiffers' = FALSE
    /\ UNCHANGED poolVars
    /\ UNCHANGED <<focus, mon, cfgExpect, cfgWritten, cfgRead, cfgReadField>>
    /\ UNCHANGED <<maskArg, maskWritten, maskRead, maskReadField>>
    /\ UNCHANGED <<cbVars, acqVars, extVars>>

\* Another party writes the claim-name variable, as the set-up of
\* ExistingEdefTest does.
EnvClaim ==
    /\ claimName = NoName
    /\ claimName' = OtherName
    /\ UNCHANGED <<kind, slotName, pc, name, num, elapsed, number, err,
                   freeAtStart, relDuring, dup>>

\* Another party frees the observed slot (caput FREE 1).
EnvFree ==
    /\ slotName[focus] # NoName
    /\ slotName' = IocFree(focus)
    /\ UNCHANGED <<kind, claimName, pc, name, num, elapsed, number, err,
                   freeAtStart, relDuring, dup>>

\* Another client's reservation gets the slot the handle gave back.
EnvTake ==
    /\ slotName[focus] = NoName
    /\ slotName' = [slotName EXCEPT ![focus] = OtherName]
    /\ UNCHANGED <<kind, claimName, pc, name, num, elapsed, number, err,
                   freeAtStart, relDuring, dup>>

\* The names other clients may write: none, a name of their own, or the very
\* name a reservation under way is waiting for.
ScrambleNames == {NoName, OtherName} \cup {name[c] : c \in Clients}

\* Other clients write what they like: a slot gets any name or none, the
\* claim variable gets any name or none.
EnvScramble ==
    /\ \/ /\ \E s \in DOMAIN slotName : \E v \in ScrambleNames :
                slotName' = [slotName EXCEPT ![s] = v]
          /\ UNCHANGED claimName
       \/ /\ \E v \in ScrambleNames : claimName' = v
          /\ UNCHANGED slotName
    /\ UNCHANGED <<kind, pc, name, num, elapsed, number, err,
                   freeAtStart, relDuring, dup>>

\* The pool as the constructor of one client finds it: every slot but the
\* observed one is held by other users.
InitCtor ==
    /\ kind \in Kinds
    /\ focus \in Slots(kind)
    /\ slotName = [s \in Slots(kind) |-> IF s = focus THEN NoName ELSE OtherName]
    /\ InitClients
    /\ InitMasks
    /\ InitCounts
    /\ InitCb
    /\ InitAcq
    /\ InitExt


(***************************************************************************)
(* Specification of the reservation protocol: two clients reserve and      *)
(* release slots of one pool.                                              *)
(***************************************************************************)
Init == InitPool /\ InitMasks /\ InitCfg /\ InitCb /\ InitAcq /\ InitExt

IocStep == IocClaim /\ UNCHANGED <<maskVars, cfgVars, ctorVars, cbVars, acqVars, extVars>>

ClientReserve == \E c \in Clients, n \in Names : ReserveCall(c, n) /\ UNCHANGED <<maskVars, cfgVars, ctorVars, cbVars, acqVars, extVars>>

ClientPut == \E c \in Clients : PutName(c) /\ UNCHANGED <<maskVars, cfgVars, ctorVars, cbVars, acqVars, extVars>>

ClientScan == \E c \in Clients : ScanStep(c) /\ UNCHANGED <<maskVars, cfgVars, ctorVars, cbVars, acqVars, extVars>>

ClientFinal == \E c \in Clients : FinalCheck(c) /\ UNCHANGED <<maskVars, cfgVars, ctorVars, cbVars, acqVars, extVars>>

ClientRelease == \E c \in Clients : Release(c) /\ UNCHANGED <<maskVars, cfgVars, ctorVars, cbVars, acqVars, extVars>>

ClientDrop == \E c \in Clients : Drop(c) /\ UNCHANGED <<maskVars, cfgVars, ctorVars, cbVars, acqVars, extVars>>

Next ==
    \/ IocStep
    \/ ClientReserve
    \/ ClientPut
    \/ ClientScan
    \/ ClientFinal
    \/ ClientRelease
    \/ ClientDrop

Spec == Init /\ [][Next]_vars

(***************************************************************************)
(* Specification of the mask fields of one constructed handle.             *)
(***************************************************************************)
WriteMasks ==
    \E f \in MaskFields(kind), masks \in SUBSET MaskNames(kind) :
        SetMasks(f, masks) /\ UNCHANGED <<poolVars, cfgVars, ctorVars, cbVars, acqVars, extVars>>

ReadMasks == \E f \in MaskFields(kind) : GetMasks(f)
        /\ UNCHANGED <<poolVars, cfgVars, ctorVars, cbVars, acqVars, extVars>>

NextMask == WriteMasks \/ ReadMasks

SpecMask == Init /\ [][NextMask]_vars

(***************************************************************************)
(* Specification of the constructor: one client builds handles on the      *)
(* observed slot, fresh or from its number, while other parties claim,     *)
(* configure and free it.                                                  *)
(***************************************************************************)
Builder == 1

CtorRest == <<maskVars, cfgVars, ctorVars, cbVars, acqVars, extVars>>

CtorIoc == IocClaim /\ UNCHANGED CtorRest

CtorEnvClaim == EnvClaim /\ UNCHANGED CtorRest

CtorEnvFree == EnvFree /\ UNCHANGED CtorRest

CtorEnvConfig ==
    \E f \in CfgFields : \E v \in CfgValues(f) :
        EnvConfig(f, v) /\ UNCHANGED <<poolVars, maskVars, ctorVars, cbVars, acqVars, extVars>>

CtorReserve ==
    /\ ctorVia = "none"
    /\ \E n \in Names : ReserveCall(Builder, n)
    /\ UNCHANGED CtorRest

CtorPut == PutName(Builder) /\ UNCHANGED CtorRest

CtorScan == ScanStep(Builder) /\ UNCHANGED CtorRest

CtorFinal == FinalCheck(Builder) /\ UNCHANGED CtorRest

CtorConfigure ==
    \E avg \in CfgArgs("AVGCNT"), meas \in CfgArgs("MEASCNT"),
       inc \in MaskArgs(kind), exc \in MaskArgs(kind) :
        /\ kind = "BSA" => exc = NoMasks
        /\ Configure(Builder, avg, meas, inc, exc)

CtorAttach ==
    \E avg \in CfgArgs("AVGCNT"), meas \in CfgArgs("MEASCNT"),
       inc \in MaskArgs(kind), exc \in MaskArgs(kind) :
        /\ kind = "BSA" => exc = NoMasks
        /\ Attach(Builder, focus, avg, meas, inc, exc)

CtorRelease ==
    /\ ctorVia # "none"
    /\ Release(Builder)
    /\ ctorVia' = "none"
    /\ ctorDiffers' = FALSE
    /\ UNCHANGED <<maskVars, cfgVars, cbVars, acqVars, extVars>>

CtorDrop == Drop(Builder) /\ UNCHANGED CtorRest

NextCtor ==
    \/ CtorIoc
    \/ CtorEnvClaim
    \/ CtorEnvFree
    \/ CtorEnvConfig
    \/ CtorReserve
    \/ CtorPut
    \/ CtorScan
    \/ CtorFinal
    \/ CtorConfigure
    \/ CtorAttach
    \/ CtorRelease
    \/ CtorDrop

SpecCtor == InitCtor /\ [][NextCtor]_vars

(***************************************************************************)
(* Specification of the configuration properties of one constructed        *)
(* handle: the handle writes and reads n_avg and n_measurements while the  *)
(* monitor events arrive and other parties write the same variables.       *)
(***************************************************************************)
CfgRest == <<poolVars, maskVars, ctorVars, cbVars, acqVars, extVars>>

WriteCount ==
    \E f \in CfgFields : \E v \in CfgArgs(f) : SetCount(f, v) /\ UNCHANGED CfgRest

ReadCount == \E f \in CfgFields : GetCount(f) /\ UNCHANGED CfgRest

Monitor == \E f \in CfgFields : MonitorEvent(f) /\ UNCHANGED CfgRest

PanelWrite ==
    \E f \in CfgFields : \E v \in CfgValues(f) :
        EnvConfig(f, v) /\ UNCHANGED CfgRest

NextCfg == WriteCount \/ ReadCount \/ Monitor \/ PanelWrite

SpecCfg == Init /\ [][NextCfg]_vars

(***************************************************************************)
(* Specification of the callback properties of one constructed handle.     *)
(***************************************************************************)
CbRest == <<poolVars, maskVars, cfgVars, ctorVars, acqVars, extVars>>

AssignCallback ==
    \E p \in CbProps(kind), new \in Callbacks \cup {None} :
        CbCall(p, new) /\ UNCHANGED CbRest

RemoveOld == CbRemove /\ UNCHANGED CbRest

StoreNew == CbStore /\ UNCHANGED CbRest

AddNew == CbAdd /\ UNCHANGED CbRest

NextCb == AssignCallback \/ RemoveOld \/ StoreNew \/ AddNew

SpecCb == Init /\ [][NextCb]_vars

(***************************************************************************)
(* Specification of the acquisition of one constructed handle: the caller  *)
(* configures the counts, starts, polls and retrieves, while the firmware  *)
(* arms, counts and finishes and the monitor events arrive.                *)
(***************************************************************************)
AcqRest == <<maskVars, ctorVars, cbVars, extVars>>

\* The handle of the acquiring client holds the observed slot.
InitAcquiring ==
    /\ kind \in Kinds
    /\ focus = FirstSlot(kind)
    /\ claimName = NoName
    /\ slotName = [s \in Slots(kind) |-> IF s = focus THEN 1 ELSE NoName]
    /\ pc = [c \in Clients |-> IF c = Builder THEN "ready" ELSE "idle"]
    /\ name = [c \in Clients |-> NoName]
    /\ num = [c \in Clients |-> 0]
    /\ elapsed = [c \in Clients |-> 0]
    /\ number = [c \in Clients |-> IF c = Builder THEN focus ELSE None]
    /\ err = [c \in Clients |-> "none"]
    /\ freeAtStart = [c \in Clients |-> {}]
    /\ relDuring = [c \in Clients |-> FALSE]
    /\ dup = FALSE
    /\ InitMasks
    /\ InitCounts
    /\ InitCb
    /\ InitAcq
    /\ InitExt

AcqConfigure ==
    /\ acqPc = "idle"
    /\ fw = "off"
    /\ \E f \in CfgFields : \E v \in CfgArgs(f) : SetCount(f, v)
    /\ UNCHANGED <<poolVars, AcqRest, acqVars>>

AcqMonitor ==
    \E f \in CfgFields :
        MonitorEvent(f) /\ UNCHANGED <<poolVars, AcqRest, acqVars>>

AcqStart == Start(Builder, None) /\ UNCHANGED <<poolVars, AcqRest, cfgVars>>

AcqStartConfirm ==
    StartConfirm /\ UNCHANGED <<poolVars, AcqRest, cfgVars, doneVars>>

AcqArm ==
    FwArm /\ UNCHANGED <<poolVars, AcqRest, cfgVars, doneVars>>

AcqTick ==
    FwTick /\ UNCHANGED <<poolVars, AcqRest, cfgVars, doneVars>>

AcqDone ==
    FwDone /\ UNCHANGED <<poolVars, AcqRest, cfgVars, doneVars>>

AcqPoll ==
    /\ acqPc = "started"
    /\ PollComplete(Builder)
    /\ UNCHANGED <<poolVars, AcqRest, cfgVars, doneVars>>

AcqGetBuffer ==
    \E req \in Requests :
        GetBuffer(Builder, req)
            /\ UNCHANGED <<poolVars, AcqRest, cfgVars, doneVars>>

AcqGetBufferRead ==
    GetBufferRead(Builder)
        /\ UNCHANGED <<poolVars, AcqRest, cfgVars, doneVars>>

AcqFinish ==
    Finish /\ UNCHANGED <<poolVars, AcqRest, cfgVars, doneVars>>

NextAcq ==
    \/ AcqConfigure
    \/ AcqMonitor
    \/ AcqStart
    \/ AcqStartConfirm
    \/ AcqArm
    \/ AcqTick
    \/ AcqDone
    \/ AcqPoll
    \/ AcqGetBuffer
    \/ AcqGetBufferRead
    \/ AcqFinish

SpecAcq == InitAcquiring /\ [][NextAcq]_vars

----------------------------------------------------------------------------
\* The life of one handle: built on a slot id that may be null or zero,
\* started with or without a completion callback, stopped, polled, released
\* and used again after the release, while the firmware runs the
\* acquisitions and another client may take the slot that was given back.

LifeRest == <<maskVars, ctorVars, cbVars, extVars>>

DoneCallbacks == {None, 1}

InitLife ==
    /\ kind \in Kinds
    /\ focus = FirstSlot(kind)
    /\ claimName = NoName
    /\ number \in {[c \in Clients |-> IF c = Builder THEN n ELSE None] :
                      n \in {None, 0, focus}}
    /\ slotName = [s \in Slots(kind) |->
                      IF s = focus /\ number[Builder] = focus
                      THEN 1 ELSE NoName]
    /\ pc = [c \in Clients |-> IF c = Builder THEN "ready" ELSE "idle"]
    /\ name = [c \in Clients |-> IF c = Builder THEN 1 ELSE NoName]
    /\ num = [c \in Clients |-> 0]
    /\ elapsed = [c \in Clients |-> 0]
    /\ err = [c \in Clients |-> "none"]
    /\ freeAtStart = [c \in Clients |-> {}]
    /\ relDuring = [c \in Clients |-> FALSE]
    /\ dup = FALSE
    /\ InitMasks
    /\ InitCounts
    /\ InitCb
    /\ InitAcq
    /\ InitExt

LifeConfigure ==
    /\ acqPc = "idle"
    /\ fw = "off"
    /\ is_reserved(number[Builder])
    /\ SetCount("MEASCNT", CfgHigh) \/ SetCount("MEASCNT", 1)
    /\ UNCHANGED <<poolVars, LifeRest, acqVars>>

LifeStart ==
    \E callback \in DoneCallbacks :
        /\ callback # None => startId < MaxStarts
        /\ Start(Builder, callback)
        /\ UNCHANGED <<poolVars, LifeRest, cfgVars>>

LifeStartConfirm ==
    StartConfirm /\ UNCHANGED <<poolVars, LifeRest, cfgVars, doneVars>>

LifeStop ==
    /\ kind = "BSA"
    /\ Stop(Builder)
    /\ UNCHANGED <<poolVars, LifeRest, cfgVars>>

LifePoll ==
    PollComplete(Builder) /\ UNCHANGED <<poolVars, LifeRest, cfgVars, doneVars>>

LifeRelease == release(Builder) /\ UNCHANGED <<LifeRest, cfgVars>>

\* get_buffer of one signal.
LifeGetBuffer ==
    /\ GetBuffer(Builder, [single |-> TRUE, names |-> <<SignalName(1)>>])
    /\ UNCHANGED <<poolVars, LifeRest, cfgVars, doneVars>>

LifeGetBufferRead ==
    GetBufferRead(Builder)
        /\ UNCHANGED <<poolVars, LifeRest, cfgVars, doneVars>>

LifeLeave == Leave /\ UNCHANGED <<poolVars, LifeRest, cfgVars, doneVars>>

LifeFinish == Finish /\ UNCHANGED <<poolVars, LifeRest, cfgVars, doneVars>>

LifeTake == EnvTake /\ UNCHANGED <<LifeRest, cfgVars, acqVars>>

LifeArm ==
    /\ FwArm
    /\ IF cnt' # cnt THEN DeliverCnt(cnt') ELSE UNCHANGED doneVars
    /\ UNCHANGED <<poolVars, LifeRest, cfgVars>>

LifeTick ==
    FwTick /\ DeliverCnt(cnt') /\ UNCHANGED <<poolVars, LifeRest, cfgVars>>

LifeDone == FwDone /\ UNCHANGED <<poolVars, LifeRest, cfgVars, doneVars>>

LifeHalt == FwHalt /\ UNCHANGED <<poolVars, LifeRest, cfgVars, doneVars>>

NextLife ==
    \/ LifeConfigure
    \/ LifeStart
    \/ LifeStartConfirm
    \/ LifeStop
    \/ LifePoll
    \/ LifeRelease
    \/ LifeGetBuffer
    \/ LifeGetBufferRead
    \/ LifeLeave
    \/ LifeFinish
    \/ LifeTake
    \/ LifeArm
    \/ LifeTick
    \/ LifeDone
    \/ LifeHalt

SpecLife == InitLife /\ [][NextLife]_vars

----------------------------------------------------------------------------
\* One reservation call against a bus that other clients write at will. The
\* call is a running thread: its next step is taken sooner or later.

TermRest == <<maskVars, cfgVars, ctorVars, cbVars, acqVars, extVars>>

TermReserve ==
    \E n \in Names : ReserveCall(Builder, n) /\ UNCHANGED TermRest

TermPut == PutName(Builder) /\ UNCHANGED TermRest

TermScan == ScanStep(Builder) /\ UNCHANGED TermRest

TermFinal == FinalCheck(Builder) /\ UNCHANGED TermRest

TermRelease == Release(Builder) /\ UNCHANGED TermRest

TermDrop == Drop(Builder) /\ UNCHANGED TermRest

TermIoc == IocClaim /\ UNCHANGED TermRest

TermScramble == EnvScramble /\ UNCHANGED TermRest

TermRun == TermPut \/ TermScan \/ TermFinal

NextTerm ==
    \/ TermReserve
    \/ TermPut
    \/ TermScan
    \/ TermFinal
    \/ TermRelease
    \/ TermDrop
    \/ TermIoc
    \/ TermScramble

SpecTerm == Init /\ [][NextTerm]_vars /\ WF_vars(TermRun)

----------------------------------------------------------------------------
\* "with <handle> as h: <block>", as the example scripts use the handles.

\* The class defines __enter__ and __exit__: BSABuffer does, EventDefinition
\* does not.
HasExit(k) == k = "BSA"

\* The with statement takes the handle its expression built and looks up
\* __exit__ and __enter__; without them it raises before the block.
WithEnter ==
    /\ withPc = "none"
    /\ is_reserved(number[Builder])
    /\ withPc' = IF HasExit(kind) THEN "body" ELSE "noctx"
    /\ UNCHANGED withExc

\* The block ends, normally or by an exception raised in it.
WithLeave(exc) ==
    /\ withPc = "body"
    /\ acqPc \in {"idle", "started", "complete"}
    /\ withPc' = "exit"
    /\ withExc' = exc

\* __exit__: self.release(); the exception, if any, goes on to the caller.
WithExit ==
    /\ withPc = "exit"
    /\ withPc' = IF withExc THEN "raised" ELSE "done"
    /\ UNCHANGED withExc

WithRest == <<maskVars, ctorVars, cbVars, scenVars, mopVars, tsVars, cbFlight, stStep, resLog, waitPc, acqGen, maskDescs, descRead, inst>>

WithOpen == WithEnter /\ UNCHANGED <<poolVars, WithRest, cfgVars, acqVars>>

WithBody ==
    /\ withPc = "body"
    /\ \/ LifeConfigure
       \/ LifeStart
       \/ LifeStartConfirm
       \/ LifePoll
       \/ LifeGetBuffer
       \/ LifeGetBufferRead
       \/ LifeFinish

WithEnd ==
    \E exc \in BOOLEAN :
        /\ WithLeave(exc)
        /\ UNCHANGED <<poolVars, WithRest, cfgVars, acqVars>>

WithClose == WithExit /\ release(Builder) /\ UNCHANGED <<WithRest, cfgVars>>

WithFirmware == LifeArm \/ LifeTick \/ LifeDone

WithTake == LifeTake

NextWith ==
    \/ WithOpen
    \/ WithBody
    \/ WithEnd
    \/ WithClose
    \/ WithFirmware
    \/ WithTake

SpecWith == InitLife /\ [][NextWith]_vars

----------------------------------------------------------------------------
\* The pool with a client that may die while it holds a slot. What is still
\* running (the IOC, the other client) keeps running.

ClientCrash ==
    Crash(Builder) /\ UNCHANGED <<maskVars, cfgVars, ctorVars, cbVars, acqVars, extVars>>

NextCrash == Next \/ ClientCrash

SpecCrash == Init /\ [][NextCrash]_vars /\ WF_vars(Next)

----------------------------------------------------------------------------
\* One client reserves one handle after the other, each under a name of its
\* own, and releases none; the rest of the pool is held by somebody else.

\* The name of the i-th reservation.
ScenName(i) == OtherName + i

\* The construction of client c has ended; the handle (or the exception) is
\* kept and the client goes on to its next construction.
KeepHandle(c) ==
    /\ pc[c] \in {"ready", "failed"}
    /\ scenLog' = Append(scenLog, [slot |-> number[c], err |-> err[c]])
    /\ pc' = [pc EXCEPT ![c] = "idle"]
    /\ number' = [number EXCEPT ![c] = None]
    /\ err' = [err EXCEPT ![c] = "none"]
    /\ UNCHANGED <<kind, claimName, slotName, name, num, elapsed,
                   freeAtStart, relDuring, dup, scenFree>>

InitScen ==
    /\ kind \in Kinds
    /\ slotName \in [Slots(kind) -> {NoName, OtherName}]
    /\ scenFree = NumAvailable
    /\ scenFree >= 1
    /\ scenLog = <<>>
    /\ InitClients /\ InitMasks /\ InitCfg /\ InitCb /\ InitAcq /\ InitWith
    /\ InitMop /\ InitTs /\ cbFlight = NoFlight /\ stStep = NoStart
    /\ InitLate

ScenRest == <<maskVars, cfgVars, ctorVars, cbVars, acqVars, withVars, mopVars, tsVars, cbFlight, stStep, resLog, waitPc, acqGen, maskDescs, descRead, inst>>

ScenReserve ==
    /\ Len(scenLog) < MaxAttempts
    /\ ReserveCall(Builder, ScenName(Len(scenLog) + 1))
    /\ UNCHANGED <<ScenRest, scenVars>>

ScenPut == PutName(Builder) /\ UNCHANGED <<ScenRest, scenVars>>

ScenScan == ScanStep(Builder) /\ UNCHANGED <<ScenRest, scenVars>>

ScenFinal == FinalCheck(Builder) /\ UNCHANGED <<ScenRest, scenVars>>

ScenKeep == KeepHandle(Builder) /\ UNCHANGED ScenRest

ScenIoc == IocClaim /\ UNCHANGED <<ScenRest, scenVars>>

NextScen ==
    ScenReserve \/ ScenPut \/ ScenScan \/ ScenFinal \/ ScenKeep \/ ScenIoc

SpecScen == InitScen /\ [][NextScen]_vars

----------------------------------------------------------------------------
\* The mask properties statement by statement, with both forms of the
\* argument (a list of names, a mapping name -> boolean) and with names the
\* cache does not hold.

\* A name no descriptor of the slot carries.
UnknownMask == MaskDesc(NUM_MASK_BITS_EDEF + NUM_MASK_BITS_BSA + 1)

\* The result of a lookup that raised KeyError.
KeyError == None

\* A lookup that answers an unknown name with the first bit: cache.get(mask, 0).
LookupOrFirst(cache, nm) ==
    IF nm \in DOMAIN cache THEN cache[nm]
    ELSE CHOOSE b \in MaskBits(kind) : \A x \in MaskBits(kind) : b <= x

\* self.bit_mask_name_cache[mask]
Lookup(cache, nm) == IF nm \in DOMAIN cache THEN cache[nm] ELSE KeyError

\* The names a caller passes.
MaskArgNames == MaskNames(kind) \cup {UnknownMask}

\* "for mask in masks" / "for mask, val in masks.iteritems()": what the next
\* pass of the loop can draw. A list enables every name it holds; a mapping
\* holds every name once.
MaskItems(form, seen) ==
    [nm : IF form = "list" THEN MaskArgNames ELSE MaskArgNames \ seen,
     val : IF form = "list" THEN {TRUE} ELSE BOOLEAN]

\* The property is assigned an argument of n items, or read: the first
\* statement of the setter is clear_masks() in BSABuffer and the cache check
\* everywhere else.
MaskCall(f, form, n) ==
    /\ mop.at = "idle"
    /\ f \in MaskFields(kind)
    /\ mop' = [at |-> IF form = "get" THEN "checkget"
                      ELSE IF kind = "BSA" THEN "clear" ELSE "check",
               f |-> f, form |-> form, left |-> n, seen |-> {}, on |-> {},
               bad |-> FALSE, acc |-> 0,
               was |-> <<edefMask, dst, destmask>>]
    /\ maskRead' = {}
    /\ maskReadField' = "none"
    /\ UNCHANGED <<edefMask, dst, destmask, bit_mask_name_cache,
                   bit_mask_reverse_cache, maskArg, maskWritten, mopLast>>

\* BSABuffer.clear_masks
MaskClear ==
    /\ mop.at = "clear"
    /\ destmask' = 0
    /\ dst' = dst \ ClearedDst
    /\ mop' = [mop EXCEPT !.at = "check"]
    /\ UNCHANGED <<edefMask, bit_mask_name_cache, bit_mask_reverse_cache,
                   maskArg, maskWritten, maskRead, maskReadField, mopLast>>

\* "if len(cache) == 0: self.populate_bit_mask_name_cache()"
MaskCheck ==
    /\ mop.at \in {"check", "checkget"}
    /\ LET checked == IF mop.at = "check" THEN bit_mask_name_cache
                      ELSE bit_mask_reverse_cache
       IN  /\ bit_mask_name_cache' = NameCacheAfterCheck(checked)
           /\ bit_mask_reverse_cache' = ReverseCacheAfterCheck(checked)
    /\ mop' = [mop EXCEPT !.at = IF mop.at = "check" THEN "loop" ELSE "read"]
    /\ UNCHANGED <<edefMask, dst, destmask, maskArg, maskWritten, maskRead,
                   maskReadField, mopLast>>

\* The mask write has ended, by a return or by the exception e; on are the
\* names of the argument that were mapped to true, bad tells that the
\* argument held a name the cache does not, after is the mask state of the
\* slot it leaves behind, which is compared with the state it was called in.
MaskWriteEnds(e, on, bad, after) ==
    /\ mop' = MopIdle
    /\ mopLast' = [f |-> mop.f, form |-> mop.form, on |-> on, bad |-> bad,
                   same |-> (after = mop.was),
                   err |-> e]

\* One pass of the loop over the argument, or the statement after the loop.
\* EventDefinition writes val (1 for a list) to the variable of the bit;
\* BSABuffer writes 1 to DST{n} and ors (val << n) into the combined mask,
\* which it puts after the loop.
MaskLoop ==
    /\ mop.at = "loop"
    /\ IF mop.left = 0
       THEN /\ destmask' = IF kind = "BSA" THEN mop.acc ELSE destmask
            /\ MaskWriteEnds("none", mop.on, mop.bad,
                             <<edefMask, dst,
                               IF kind = "BSA" THEN mop.acc ELSE destmask>>)
            /\ UNCHANGED <<edefMask, dst>>
       ELSE \E it \in MaskItems(mop.form, mop.seen) :
            LET bit_num == Lookup(bit_mask_name_cache, it.nm)
                on == IF it.val THEN mop.on \cup {it.nm} ELSE mop.on
                bad == mop.bad \/ it.nm \notin DOMAIN bit_mask_name_cache
            IN  IF bit_num = KeyError
                THEN /\ MaskWriteEnds("KeyError", on, bad,
                                      <<edefMask, dst, destmask>>)
                     /\ UNCHANGED <<edefMask, dst, destmask>>
                ELSE /\ mop' = [mop EXCEPT
                                  !.left = @ - 1,
                                  !.seen = @ \cup {it.nm},
                                  !.on = on,
                                  !.bad = bad,
                                  !.acc = IF it.val THEN OrBit(@, bit_num) ELSE @]
                     /\ IF kind = "EDEF"
                        THEN /\ edefMask' =
                                  [edefMask EXCEPT
                                     ![mop.f] = IF it.val THEN @ \cup {bit_num}
                                                ELSE @ \ {bit_num}]
                             /\ UNCHANGED dst
                        ELSE /\ dst' = dst \cup {bit_num}
                             /\ UNCHANGED edefMask
                     /\ UNCHANGED <<destmask, mopLast>>
    /\ UNCHANGED <<bit_mask_name_cache, bit_mask_reverse_cache, maskArg,
                   maskWritten, maskRead, maskReadField>>

\* The rest of the getter: the variables are read and the names returned.
MaskRead ==
    /\ mop.at = "read"
    /\ GetMasks(mop.f)
    /\ mop' = MopIdle
    /\ UNCHANGED mopLast

MopRest == <<poolVars, cfgVars, ctorVars, cbVars, acqVars, withVars, scenVars, tsVars, cbFlight, stStep, resLog, waitPc, acqGen, maskDescs, descRead, inst>>

MopSet ==
    \E f \in MaskFields(kind), form \in {"list", "dict"}, n \in 0..MaxMasks :
        MaskCall(f, form, n) /\ UNCHANGED MopRest

MopGet == \E f \in MaskFields(kind) : MaskCall(f, "get", 0) /\ UNCHANGED MopRest

MopClear == MaskClear /\ UNCHANGED MopRest

MopCheck == MaskCheck /\ UNCHANGED MopRest

MopLoop == MaskLoop /\ UNCHANGED MopRest

MopRead == MaskRead /\ UNCHANGED MopRest

NextMop == MopSet \/ MopGet \/ MopClear \/ MopCheck \/ MopLoop \/ MopRead

SpecMop == Init /\ [][NextMop]_vars

----------------------------------------------------------------------------
\* The timeslot selection of a BSABuffer.

\* The instance attributes BSABuffer.__init__ assigns, and the class
\* attribute prefix.
HandleAttributes ==
    {"prefix", "number", "sys", "n_avg_pv", "n_measurements_pv", "ctrl_pv",
     "num_acquired_pv", "rate_mode_pv", "destination_mode_pv",
     "destination_mask_pv", "fixed_rate_pv", "ac_rate_pv", "timeslot_mask_pv",
     "measurement_severity_pv", "data_ready_pv", "bit_mask_name_cache",
     "bit_mask_reverse_cache", "acquisition_complete"}

\* Reading self.<a> for every a of attrs raises no AttributeError.
AttrsDefined(attrs) == attrs \subseteq HandleAttributes

\* "if isinstance(ts_list, int): ts_list = [ts_list]"
AsTsList(arg) == IF arg.isInt THEN {arg.val} ELSE arg.val

\* What a caller assigns: one slot number, or a list of slot numbers.
TsArgs ==
    [isInt : {TRUE}, val : Timeslots] \cup [isInt : {FALSE}, val : SUBSET Timeslots]

\* buffer.timeslots = arg: for every position the variable name is built from
\* self.prefix and self.num, then 1 or 0 is written to it.
SetTimeslots(arg) ==
    LET ts_list == AsTsList(arg)
    IN  IF AttrsDefined({"prefix", "num"})
        THEN /\ tsBits' = {ts \in Timeslots : ts \in ts_list}
             /\ tsSet' = [done |-> TRUE, arg |-> ts_list, err |-> "none",
                          writes |-> [ts \in Timeslots |-> <<ts \in ts_list>>]]
             /\ UNCHANGED <<tslotmask, tsGet>>
        ELSE /\ tsSet' = [done |-> TRUE, arg |-> ts_list,
                          err |-> "AttributeError",
                          writes |-> [ts \in Timeslots |-> <<>>]]
             /\ UNCHANGED <<tslotmask, tsBits, tsGet>>

\* "if bitmask & (1 << (ts - 1)) > 1: active_timeslots.append(ts)"
ActiveTimeslots(bitmask) ==
    {ts \in Timeslots : BitOf(bitmask, ts - 1) * 2 ^ (ts - 1) > 1}

\* The getter ends without a return statement: the caller receives None,
\* whatever active_timeslots holds.
ReturnedTimeslots(active) == [isList |-> FALSE, items |-> {}]

\* x = buffer.timeslots
GetTimeslots ==
    /\ tsGet' = [done |-> TRUE, mask |-> tslotmask,
                 isList |-> ReturnedTimeslots(ActiveTimeslots(tslotmask)).isList,
                 items |-> ReturnedTimeslots(ActiveTimeslots(tslotmask)).items]
    /\ UNCHANGED <<tslotmask, tsBits, tsSet>>

\* The IOC, or another client, changes the timeslot selection of the slot.
EnvTimeslots(m) ==
    /\ m # tslotmask
    /\ tslotmask' = m
    /\ tsBits' = {ts \in Timeslots : BitOf(m, ts - 1) = 1}
    /\ UNCHANGED <<tsSet, tsGet>>

TsRest == <<poolVars, maskVars, cfgVars, ctorVars, cbVars, acqVars, withVars,
            scenVars, mopVars, cbFlight, stStep, resLog, waitPc, acqGen, maskDescs, descRead, inst>>

TsAssign == \E arg \in TsArgs : SetTimeslots(arg) /\ UNCHANGED TsRest

TsRead == GetTimeslots /\ UNCHANGED TsRest

TsEnv == \E m \in TslotMasks : EnvTimeslots(m) /\ UNCHANGED TsRest

NextTs == TsAssign \/ TsRead \/ TsEnv

InitBsa == Init /\ kind = "BSA"

SpecTs == InitBsa /\ [][NextTs]_vars

----------------------------------------------------------------------------
\* The callback properties together with the thread of the bus adapter that
\* delivers the change notifications. The setters hold no lock, and the
\* function the adapter calls has the user callback bound into it.

\* A variable of property p has changed: the adapter's thread fetches one of
\* the functions subscribed to it.
Dispatch(p) ==
    /\ cbFlight = NoFlight
    /\ p \in CbProps(kind)
    /\ \E i \in DOMAIN subs[p] : cbFlight' = [p |-> p, f |-> subs[p][i]]
    /\ UNCHANGED cbVars

\* "_avg_callback_full(self, user_cb, value=None, **kw): user_cb(value)", on
\* the adapter's thread.
Invoke ==
    /\ cbFlight # NoFlight
    /\ cbFlight' = NoFlight
    /\ UNCHANGED cbVars

RaceRest == <<poolVars, maskVars, cfgVars, ctorVars, acqVars, withVars,
              scenVars, mopVars, tsVars, stStep, resLog, waitPc, acqGen, maskDescs, descRead, inst>>

RaceAssign ==
    \E p \in CbProps(kind), new \in Callbacks \cup {None} :
        CbCall(p, new) /\ UNCHANGED <<RaceRest, cbFlight>>

RaceRemove == CbRemove /\ UNCHANGED <<RaceRest, cbFlight>>

RaceStore == CbStore /\ UNCHANGED <<RaceRest, cbFlight>>

RaceAdd == CbAdd /\ UNCHANGED <<RaceRest, cbFlight>>

RaceDispatch == \E p \in CbProps(kind) : Dispatch(p) /\ UNCHANGED RaceRest

RaceInvoke == Invoke /\ UNCHANGED RaceRest

NextRace ==
    RaceAssign \/ RaceRemove \/ RaceStore \/ RaceAdd \/ RaceDispatch \/ RaceInvoke

SpecRace == Init /\ [][NextRace]_vars

----------------------------------------------------------------------------
\* start(callback) statement by statement, with the firmware running beside
\* it.

\* A start that writes CTRL before it subscribes the completion callback.
PutFirst == <<"put", "subscribe">>

\* The statements of start() after the reservation check: add_callback of
\* the completion callback, then ctrl_pv.put(1).
StartOrder == <<"subscribe", "put">>

\* start(callback) on a reserved handle passes the reservation check.
StartEnter(c, callback) ==
    /\ acqPc = "idle"
    /\ stStep = NoStart
    /\ is_reserved(number[c])
    /\ stStep' = [i |-> 1, cb |-> callback, done |-> {}]
    /\ UNCHANGED acqVars

\* The next statement of the start in progress; after the last one start()
\* goes on as Start does.
StartStatement ==
    /\ stStep.i \in DOMAIN StartOrder
    /\ IF StartOrder[stStep.i] = "subscribe"
       THEN DoneSubscribe(stStep.cb) /\ UNCHANGED ctrl
       ELSE ctrl' = 1 /\ UNCHANGED doneVars
    /\ IF stStep.i = Len(StartOrder)
       THEN /\ stStep' = NoStart
            /\ acqPc' = IF kind = "EDEF" THEN "started" ELSE "starting"
            /\ startWaited' = 0
            /\ polled' = "none"
            /\ sawComplete' = FALSE
       ELSE /\ stStep' = [stStep EXCEPT
                            !.i = @ + 1,
                            !.done = @ \cup {StartOrder[stStep.i]}]
            /\ UNCHANGED <<acqPc, startWaited, polled, sawComplete>>
    /\ UNCHANGED <<cnt, cntmax, ready, fw, acqLen, acqErr, acqReq, acqActual,
                   acqBuf, acqFetched, acqCntAtRead, acqReadyAtRead>>

StartRest == <<poolVars, maskVars, cfgVars, ctorVars, cbVars, withVars,
               scenVars, mopVars, tsVars, cbFlight, resLog, waitPc, acqGen, maskDescs, descRead, inst>>

StepEnter ==
    \E callback \in DoneCallbacks :
        /\ callback # None => startId < MaxStarts
        /\ StartEnter(Builder, callback)
        /\ UNCHANGED StartRest

StepStatement == StartStatement /\ UNCHANGED StartRest

StepConfigure == stStep = NoStart /\ LifeConfigure

StepConfirm == stStep = NoStart /\ LifeStartConfirm

StepPoll == stStep = NoStart /\ LifePoll

StepFinish == stStep = NoStart /\ LifeFinish

NextStart ==
    \/ StepEnter
    \/ StepStatement
    \/ StepConfigure
    \/ StepConfirm
    \/ StepPoll
    \/ StepFinish
    \/ LifeArm
    \/ LifeTick
    \/ LifeDone

SpecStart == InitLife /\ [][NextStart]_vars

----------------------------------------------------------------------------
\* One reservation followed read by read: whether the claim name was written,
\* and which slots the current pass of the scan has read without a match.

\* The log after the scan step of client c.
ScanLog(c) ==
    IF ScanMatches(c) THEN resLog
    ELSE IF num[c] < LastSlot(kind)
    THEN [resLog EXCEPT !.seen = @ \cup {num[c]}]
    ELSE [resLog EXCEPT !.seen = {}]

ResRest == <<maskVars, cfgVars, ctorVars, cbVars, acqVars, withVars, scenVars,
             mopVars, tsVars, cbFlight, stStep, waitPc, acqGen, maskDescs, descRead, inst>>

ResReserve ==
    /\ \E n \in Names : ReserveCall(Builder, n)
    /\ resLog' = NoResLog
    /\ UNCHANGED ResRest

ResPut ==
    /\ PutName(Builder)
    /\ resLog' = [wrote |-> TRUE, seen |-> {}]
    /\ UNCHANGED ResRest

ResScan ==
    /\ ScanStep(Builder)
    /\ resLog' = ScanLog(Builder)
    /\ UNCHANGED ResRest

ResFinal == FinalCheck(Builder) /\ UNCHANGED <<ResRest, resLog>>

ResRelease == Release(Builder) /\ UNCHANGED <<ResRest, resLog>>

ResDrop == Drop(Builder) /\ UNCHANGED <<ResRest, resLog>>

ResIoc == IocClaim /\ UNCHANGED <<ResRest, resLog>>

ResScramble == EnvScramble /\ UNCHANGED <<ResRest, resLog>>

NextRes ==
    \/ ResReserve
    \/ ResPut
    \/ ResScan
    \/ ResFinal
    \/ ResRelease
    \/ ResDrop
    \/ ResIoc
    \/ ResScramble

SpecRes == Init /\ [][NextRes]_vars

----------------------------------------------------------------------------
\* wait_for_complete, with the firmware and whoever stops the acquisition
\* running beside the waiting caller.

\* A wait that returns without looking at the acquisition.
ReturnsAtOnce == TRUE

\* "while not self.is_acquisition_complete()": the loop is left.
WaitOver == is_acquisition_complete

\* wait_for_complete() is called.
WaitCall ==
    /\ waitPc = "none"
    /\ acqPc \in {"idle", "started"}
    /\ waitPc' = "waiting"
    /\ UNCHANGED acqVars

\* One pass of the loop: the reservation check of is_acquisition_complete,
\* the test, and the sleep when the test fails.
WaitCheck(c) ==
    /\ waitPc = "waiting"
    /\ IF ~is_reserved(number[c])
       THEN /\ waitPc' = "raised"
            /\ Raise("NotReserved")
       ELSE IF WaitOver
       THEN /\ waitPc' = "returned"
            /\ polled' = "true"
            /\ UNCHANGED <<acqPc, acqLen, acqErr, startWaited, sawComplete,
                           acqReq, acqActual, acqBuf, acqFetched,
                           acqCntAtRead, acqReadyAtRead>>
       ELSE UNCHANGED <<waitPc, callAcq>>
    /\ UNCHANGED <<busAcq, doneVars>>

\* The caller goes on after the wait.
WaitForget ==
    /\ waitPc \in {"returned", "raised"}
    /\ waitPc' = "none"
    /\ acqPc' = "idle"
    /\ acqErr' = "none"
    /\ polled' = "none"
    /\ UNCHANGED <<busAcq, doneVars, acqLen, startWaited, sawComplete, acqReq,
                   acqActual, acqBuf, acqFetched, acqCntAtRead, acqReadyAtRead>>

WaitRest == <<poolVars, maskVars, cfgVars, ctorVars, cbVars, withVars, scenVars,
              mopVars, tsVars, cbFlight, stStep, resLog, acqGen, maskDescs, descRead, inst>>

WaitConfigure ==
    /\ waitPc = "none"
    /\ acqPc = "idle"
    /\ fw = "off"
    /\ is_reserved(number[Builder])
    /\ \E v \in {MeasLow, 1, CfgHigh} : SetCount("MEASCNT", v)
    /\ UNCHANGED <<poolVars, LifeRest, acqVars>>

WaitStart ==
    /\ waitPc = "none"
    /\ Start(Builder, None)
    /\ UNCHANGED <<poolVars, LifeRest, cfgVars>>

WaitConfirm == waitPc = "none" /\ LifeStartConfirm

WaitBegin == WaitCall /\ UNCHANGED <<WaitRest>>

WaitLoop == WaitCheck(Builder) /\ UNCHANGED <<WaitRest>>

WaitEnd == WaitForget /\ UNCHANGED <<WaitRest>>

NextWait ==
    \/ WaitConfigure
    \/ WaitStart
    \/ WaitConfirm
    \/ WaitBegin
    \/ WaitLoop
    \/ WaitEnd
    \/ LifeStop
    \/ LifeArm
    \/ LifeTick
    \/ LifeDone
    \/ LifeHalt

SpecWait == InitLife /\ [][NextWait]_vars /\ WF_vars(WaitLoop)

----------------------------------------------------------------------------
\* Successive acquisitions on one slot, with a record of how far the
\* acquisition of the latest start() has come.

GenRest == <<poolVars, maskVars, ctorVars, cbVars, withVars, scenVars, mopVars,
             tsVars, cbFlight, stStep, resLog, waitPc, maskDescs, descRead, inst>>

\* start() is called when the previous acquisition is over.
GenStart ==
    /\ ctrl = 0
    /\ fw = "off"
    /\ Start(Builder, None)
    /\ acqGen' = IF is_reserved(number[Builder]) THEN "pending" ELSE acqGen
    /\ UNCHANGED <<GenRest, cfgVars>>

GenConfirm == StartConfirm /\ UNCHANGED <<GenRest, cfgVars, doneVars, acqGen>>

GenConfigure ==
    /\ acqPc = "idle"
    /\ fw = "off"
    /\ is_reserved(number[Builder])
    /\ \E v \in {1, CfgHigh} : SetCount("MEASCNT", v)
    /\ UNCHANGED <<GenRest, acqVars, acqGen>>

GenMonitor ==
    \E f \in CfgFields : MonitorEvent(f) /\ UNCHANGED <<GenRest, acqVars, acqGen>>

GenPoll ==
    /\ acqPc = "started"
    /\ PollComplete(Builder)
    /\ UNCHANGED <<GenRest, cfgVars, doneVars, acqGen>>

GenLeave == Leave /\ UNCHANGED <<GenRest, cfgVars, doneVars, acqGen>>

GenFinish == Finish /\ UNCHANGED <<GenRest, cfgVars, doneVars, acqGen>>

GenArm ==
    /\ FwArm
    /\ acqGen' = IF acqGen = "pending" THEN "armed" ELSE acqGen
    /\ UNCHANGED <<GenRest, cfgVars, doneVars>>

GenTick == FwTick /\ UNCHANGED <<GenRest, cfgVars, doneVars, acqGen>>

GenDone ==
    /\ FwDone
    /\ acqGen' = IF acqGen = "armed" THEN "finished" ELSE acqGen
    /\ UNCHANGED <<GenRest, cfgVars, doneVars>>

NextGen ==
    \/ GenStart
    \/ GenConfirm
    \/ GenConfigure
    \/ GenMonitor
    \/ GenPoll
    \/ GenLeave
    \/ GenFinish
    \/ GenArm
    \/ GenTick
    \/ GenDone

SpecGen == InitLife /\ [][NextGen]_vars

----------------------------------------------------------------------------
\* Cache population over descriptors that need not be pairwise distinct: a
\* mask bit carries a name of its own or the empty description.

\* The empty .DESC of a mask bit nobody named.
Unnamed == NoName

\* The descriptors a slot can carry.
DescChoices == {d \in [MaskBits(kind) -> {Unnamed} \cup MaskNames(kind)] :
                   \A b \in MaskBits(kind) : d[b] \in {Unnamed, MaskDesc(b)}}

\* The forward caches populate_bit_mask_name_cache can build from descriptors
\* d: one entry per name. EventDefinition fills it in the order of a dict of
\* channels, so any bit of a repeated name can stay; BSABuffer fills it from
\* zip(bit_names, bit_nums), so the highest bit stays.
ForwardCaches(d) ==
    LET names == {d[b] : b \in DOMAIN d}
        all == {f \in [names -> DOMAIN d] : \A nm \in names : d[f[nm]] = nm}
    IN  IF kind = "EDEF" THEN all
        ELSE {f \in all : \A nm \in names : \A b \in DOMAIN d :
                              d[b] = nm => b <= f[nm]}

\* The reverse cache: EventDefinition inverts the forward cache, BSABuffer
\* zips the bit numbers with the names.
ReverseOf(f, d) ==
    IF kind = "EDEF" THEN [b \in {f[nm] : nm \in DOMAIN f} |-> d[b]] ELSE d

\* The first mask access of the handle populates its caches.
DescPopulate ==
    /\ DOMAIN bit_mask_name_cache = {}
    /\ \E f \in ForwardCaches(maskDescs) :
          /\ bit_mask_name_cache' = f
          /\ bit_mask_reverse_cache' = ReverseOf(f, maskDescs)
    /\ UNCHANGED <<edefMask, dst, destmask, maskArg, maskWritten, maskRead,
                   maskReadField, maskDescs, descRead>>

\* A mask read with populated caches: reverse[bit] for every bit that is set.
DescGet(f) ==
    /\ DOMAIN bit_mask_name_cache # {}
    /\ f \in MaskFields(kind)
    /\ LET bits == IF kind = "EDEF" THEN edefMask[f]
                   ELSE {n \in DOMAIN bit_mask_reverse_cache :
                            BitOf(destmask, n) # 0}
       IN  IF bits \subseteq DOMAIN bit_mask_reverse_cache
           THEN /\ maskRead' = {bit_mask_reverse_cache[b] : b \in bits}
                /\ descRead' = [done |-> TRUE, err |-> "none"]
           ELSE /\ maskRead' = {}
                /\ descRead' = [done |-> TRUE, err |-> "KeyError"]
    /\ maskReadField' = f
    /\ UNCHANGED <<edefMask, dst, destmask, bit_mask_name_cache,
                   bit_mask_reverse_cache, maskArg, maskWritten, maskDescs>>

\* Somebody on the bus sets or clears a mask bit of the slot.
EnvMaskBit(f, b) ==
    /\ f \in MaskFields(kind)
    /\ b \in MaskBits(kind)
    /\ IF kind = "EDEF"
       THEN /\ edefMask' = [edefMask EXCEPT
                              ![f] = IF b \in @ THEN @ \ {b} ELSE @ \cup {b}]
            /\ UNCHANGED destmask
       ELSE /\ destmask' = IF BitOf(destmask, b) = 1 THEN destmask - 2 ^ b
                           ELSE destmask + 2 ^ b
            /\ UNCHANGED edefMask
    /\ UNCHANGED <<dst, bit_mask_name_cache, bit_mask_reverse_cache, maskArg,
                   maskWritten, maskRead, maskReadField, maskDescs, descRead>>

InitDesc ==
    /\ InitPool /\ InitCfg /\ InitCb /\ InitAcq
    /\ InitWith /\ InitKept /\ InitMop /\ InitTs
    /\ cbFlight = NoFlight /\ stStep = NoStart
    /\ resLog = NoResLog /\ waitPc = "none" /\ acqGen = "none"
    /\ inst = [at |-> "idle", i |-> 0, cb |-> None, masks |-> "none"]
    /\ edefMask = [f \in {"INCM", "EXCM"} |-> {}]
    /\ dst = {}
    /\ destmask = 0
    /\ bit_mask_name_cache = EmptyCache
    /\ bit_mask_reverse_cache = EmptyCache
    /\ maskArg = [f \in {"INCM", "EXCM", "DST"} |-> {}]
    /\ maskWritten = [f \in {"INCM", "EXCM", "DST"} |-> FALSE]
    /\ maskRead = {}
    /\ maskReadField = "none"
    /\ maskDescs \in DescChoices
    /\ descRead = [done |-> FALSE, err |-> "none"]

DescRest == <<poolVars, cfgVars, ctorVars, cbVars, acqVars, withVars, scenVars,
              mopVars, tsVars, cbFlight, stStep, resLog, waitPc, acqGen, inst>>

DescFill == DescPopulate /\ UNCHANGED DescRest

DescReadMasks == \E f \in MaskFields(kind) : DescGet(f) /\ UNCHANGED DescRest

DescEnv ==
    \E f \in MaskFields(kind), b \in MaskBits(kind) :
        EnvMaskBit(f, b) /\ UNCHANGED DescRest

NextDesc == DescFill \/ DescReadMasks \/ DescEnv

SpecDesc == InitDesc /\ [][NextDesc]_vars

(***************************************************************************)
(* Properties of the reservation protocol.                                 *)
(***************************************************************************)
Held(c) == pc[c] = "ready"

\* C1: as long as the clients use pairwise distinct names, no slot id is held
\* by two un-released reservations at the same time.
C1_NoSlotHeldTwice ==
    ~dup => \A c, d \in Clients :
                (c # d /\ Held(c) /\ Held(d)) => number[c] # number[d]

C1_Witness ==
    /\ ~dup
    /\ \A c \in Clients : Held(c)
    /\ \A c, d \in Clients : c # d => number[c] # number[d]

\* The step in which the reservation of client c ends, with a slot or an error.
EndsReservation(c) ==
    /\ pc[c] \in Reserving \cup {"idle"}
    /\ pc'[c] \in {"ready", "failed"}

\* The free slots when the reservation that ends in this step was called.
StartFree(c) == IF pc[c] = "idle" THEN FreeSlots ELSE freeAtStart[c]

\* C2: a reservation attempted while the pool reports zero free slots fails
\* with ResourceExhausted: it returns no slot id and raises no timeout.
C2_EmptyPoolRaisesExhausted ==
    [][\A c \in Clients :
          (EndsReservation(c) /\ StartFree(c) = {})
              => (pc'[c] = "failed" /\ err'[c] = "exhausted")]_vars

\* The step in which client c releases a slot that is reserved on the IOC.
ReleasesReserved(c) ==
    /\ pc[c] = "ready"
    /\ pc'[c] = "released"
    /\ slotName[number[c]] # NoName

Returns(c) == pc[c] = "scan" /\ pc'[c] = "ready"

\* C5 as stated: a successful reservation leaves the free-slot count strictly
\* lower than it was when the reservation started.
C5_CountDropsAlways ==
    [][\A c \in Clients :
          Returns(c) => NumAvailable' < Cardinality(freeAtStart[c])]_vars

\* C5 amended: a successful reservation that returns a slot which was free when
\* the reservation started, and during which no slot was released, leaves the
\* free-slot count strictly lower than it was when the reservation started.
C5_CountDropsUndisturbed ==
    [][\A c \in Clients :
          (Returns(c) /\ ~relDuring[c] /\ number'[c] \in freeAtStart[c])
              => NumAvailable' < Cardinality(freeAtStart[c])]_vars

\* A scan stands on the slot the IOC gave it, which was free when the
\* reservation started, and no slot was released meanwhile.
C5_Witness ==
    \E c \in Clients :
        /\ pc[c] = "scan"
        /\ ScanMatches(c)
        /\ ~relDuring[c]
        /\ num[c] \in freeAtStart[c]
        /\ NumAvailable < Cardinality(freeAtStart[c])

(***************************************************************************)
(* Properties of the mask fields.                                          *)
(***************************************************************************)
\* The bits of field f that are set on the bus.
FieldBits(f) == IF f = "DST" THEN dst ELSE edefMask[f]

\* C7: a read of a mask field that the handle has written returns exactly the
\* names of the latest write to it.
C7_MaskRoundTrip ==
    (maskReadField # "none" /\ maskWritten[maskReadField])
        => maskRead = maskArg[maskReadField]

\* C8: after a mask write, every bit of the field that is not among the
\* written names is cleared: the per-position variables and, for BSABuffer,
\* the bits of DESTMASK.
C8_MaskWriteReplaces ==
    \A f \in MaskFields(kind) :
        maskWritten[f] =>
            /\ FieldBits(f) \subseteq BitsOfNames(bit_mask_name_cache, maskArg[f])
            /\ f = "DST" =>
                   \A n \in MaskBits(kind) :
                       BitOf(destmask, n) = 1 =>
                           n \in BitsOfNames(bit_mask_name_cache, maskArg[f])

(***************************************************************************)
(* Properties of the constructor.                                          *)
(***************************************************************************)
\* A step in which the constructor was given the slot number.
AttachStep == pc[Builder] = "idle" /\ pc'[Builder] = "ready"

\* C3: constructing a handle from a known slot id writes no claim name, runs
\* no scan, and leaves the name, the averaging depth, the measurement count
\* and the masks of the slot as they were, whatever arguments are passed.
C3_AttachLeavesSlot ==
    [][AttachStep =>
          UNCHANGED <<claimName, num, elapsed, slotName, cfg, edefMask, dst,
                      destmask>>]_vars

\* A handle built from the number of a slot another party holds, with
\* arguments that all differ from what the slot holds.
C3_Witness ==
    /\ ctorVia = "number"
    /\ ctorDiffers
    /\ pc[Builder] = "ready"
    /\ slotName[focus] = OtherName
    /\ cfg["AVGCNT"] # AvgLow

(***************************************************************************)
(* Properties of the configuration properties.                             *)
(***************************************************************************)
\* C9: a read of n_avg or n_measurements that follows the handle's write of
\* the property returns the written value clipped to the control limits.
C9_ReadBackClipped ==
    (cfgReadField # "none" /\ cfgWritten[cfgReadField])
        => cfgRead = cfgExpect[cfgReadField]

(***************************************************************************)
(* Properties of the callback properties.                                  *)
(***************************************************************************)
LiveSubs(p) == Cardinality(DOMAIN subs[p])

\* The setter of property p is between its first and its last statement.
InSetter(p) == cbPc # "idle" /\ cbProp = p

\* C6: at every state, intermediate ones included, every property has at
\* most one live subscription; none is live when a new one is about to be
\* added; and a property whose callback is None has none outside its setter.
C6_AtMostOneSubscription ==
    \A p \in CbProps(kind) :
        /\ LiveSubs(p) <= 1
        /\ (InSetter(p) /\ cbPc \in {"store", "add"}) => LiveSubs(p) = 0
        /\ (~InSetter(p) /\ cb[p] = None) => LiveSubs(p) = 0
        /\ (~InSetter(p) /\ cb[p] # None) =>
               (LiveSubs(p) = 1 /\ subs[p][cbIndex[p]] = cb[p])

\* A callback was replaced by another, assigned again and unset, and a
\* property is subscribed.
C6_Witness ==
    /\ cbSeen = {"same", "none", "replace"}
    /\ cbPc = "idle"
    /\ \E p \in CbProps(kind) : LiveSubs(p) = 1 /\ cb[p] # None
    /\ \E p \in CbProps(kind) : cb[p] = None /\ cbIndex[p] # None

(***************************************************************************)
(* Properties of the acquisition.                                          *)
(***************************************************************************)
\* The measurement count configured on the handle is a bounded one: not the
\* rolling count -1.
BoundedCount == cfg["MEASCNT"] # MeasLow

\* C10: once start() has returned and completion detection has reported
\* complete, get_buffer of one signal returns exactly as many samples as the
\* bounded measurement count configured on the handle.
C10_BufferHasConfiguredCount ==
    (acqPc = "retrieved" /\ sawComplete /\ acqReq.single /\ BoundedCount)
        => acqLen = cfg["MEASCNT"]

\* The measurements acquired when the latest get_buffer read the buffer: CNT
\* counts pulses for an event definition, measurements for a BSA buffer.
AcquiredAtRead ==
    IF kind = "EDEF" THEN acqCntAtRead \div cfg["AVGCNT"] ELSE acqCntAtRead

NoDuplicates(q) == \A i, j \in DOMAIN q : i # j => q[i] # q[j]

\* C11: get_buffer with a list of signal names, called once completion was
\* reported, returns a mapping whose keys are exactly the requested names,
\* every value as long as the acquired count, from one batched read in which
\* no name is read twice.
C11_MultiRetrieval ==
    (acqPc = "retrieved" /\ sawComplete /\ ~acqReq.single) =>
        /\ DOMAIN acqBuf = Range(acqReq.names)
        /\ \A key \in DOMAIN acqBuf : acqBuf[key] = AcquiredAtRead
        /\ NoDuplicates(acqFetched)

\* The handle was built on a slot id that is null or zero.
NoSlotId == number[Builder] \in {None, 0}

\* One call of start, stop, is_acquisition_complete or release.
HandleCall ==
    \/ \E callback \in DoneCallbacks : Start(Builder, callback)
    \/ Stop(Builder)
    \/ PollComplete(Builder)
    \/ release(Builder)

\* C12: on a handle whose slot id is null or zero, start(), stop(),
\* is_acquisition_complete() and release() each fail with NotReserved, and
\* the failing call writes no bus variable (CTRL, FREE, the counts) and
\* registers no callback.
C12_UnreservedCallsRejected ==
    [][(NoSlotId /\ HandleCall) =>
          /\ acqPc' = "failed"
          /\ acqErr' = "NotReserved"
          /\ UNCHANGED <<busAcq, slotName, claimName, doneVars, subs>>]_vars

C12_Witness ==
    /\ NoSlotId
    /\ acqPc = "failed"
    /\ acqErr = "NotReserved"
    /\ ctrl = 0
    /\ doneSubs = {}

\* C13: a completion callback passed to start() is invoked once per start,
\* when the acquired count reaches the target count of that start and not
\* at any other count: no callback is invoked twice, and none is invoked at
\* a count other than the target its start captured.
C13_CallbackOncePerStart ==
    /\ \A i \in DOMAIN doneFired : doneFired[i] <= 1
    /\ ~doneBad

LensRead ==
    IF acqReq.single THEN {acqLen} ELSE {acqBuf[key] : key \in DOMAIN acqBuf}

\* C15: BSABuffer.get_buffer does not read the buffer before it has seen the
\* data-ready flag true, unless the acquired count is zero, and then it reads
\* without waiting; what it returns is as long as the acquired count at the
\* moment the buffer is read.
C15_BsaWaitsAndTrims ==
    /\ (kind = "BSA" /\ acqPc = "counted" /\ acqActual = 0)
           => ENABLED GetBufferRead(Builder)
    /\ (kind = "BSA" /\ acqPc = "retrieved") =>
           /\ acqActual > 0 => acqReadyAtRead
           /\ \A len \in LensRead : len = acqCntAtRead

\* The length the trimming rule gives for measurement count n.
ClaimedEdefLen(n) == IF n = MeasLow THEN BufLen ELSE n

\* C16: EventDefinition.get_buffer returns each buffer trimmed to the
\* measurement count the handle reads when that count is bounded, and at the
\* full length of the rolling buffer only when the count is -1, for one
\* signal and for a list of signals alike.
C16_EdefTrimRule ==
    [][(kind = "EDEF" /\ acqPc # "retrieved" /\ acqPc' = "retrieved") =>
          \A len \in LensRead' : len = ClaimedEdefLen(mon["MEASCNT"])]_vars

C18_ReservationTerminates ==
    (pc[Builder] \in Reserving) ~> (pc[Builder] \in {"ready", "failed"})

C18_Witness ==
    /\ pc[Builder] = "final"
    /\ \E s \in DOMAIN slotName : slotName[s] = OtherName

\* The number of slots without a name.
FreeCount == Cardinality({s \in DOMAIN slotName : slotName[s] = NoName})

\* C19: when the scan has timed out without a match, the error raised is
\* decided by the free-slot count read at that moment: ResourceExhausted iff
\* the count is below 1, ReservationTimeout iff it is at least 1.
C19_TimeoutErrorByFreeCount ==
    [][\A c \in Clients :
          (pc[c] = "final" /\ pc'[c] # "final") =>
              /\ pc'[c] = "failed"
              /\ err'[c] \in {"exhausted", "timeout"}
              /\ err'[c] = "exhausted" <=> FreeCount < 1
              /\ err'[c] = "timeout" <=> FreeCount >= 1]_vars

C19_Witness ==
    \E c \in Clients :
        /\ kind = "EDEF"
        /\ pc[c] = "failed"
        /\ err[c] = "exhausted"
        /\ FreeCount = 0

\* release() has been performed on the handle.
Released == pc[Builder] = "released"

\* One whole call on the handle.
CallAfterRelease ==
    LifeStart \/ LifeStop \/ LifePoll \/ LifeGetBuffer \/ LifeRelease

\* C20: once release() has been performed on a handle, every further
\* operation on it (start, stop, completion check, buffer retrieval, another
\* release) is rejected and changes nothing on the bus: not CTRL, not the
\* counts, not the name of the slot, which may be another client's by then.
C20_ReleasedHandleInert ==
    [][(Released /\ CallAfterRelease) =>
          /\ acqPc' = "failed"
          /\ UNCHANGED <<busAcq, slotName>>]_vars

\* C21: a handle used in a with statement is released when the statement is
\* over, whether the block ended normally or by an exception, for an
\* EventDefinition as for a BSABuffer.
C21_WithReleases ==
    withPc \in {"done", "raised", "noctx"} => pc[Builder] = "released"

\* C22: a client that dies while it holds a reserved slot it has not released
\* does not strand the slot: the slot eventually is free again for another
\* reservation.
C22_CrashedSlotFreed ==
    (pc[Builder] = "crashed")
        ~> (pc[Builder] = "crashed" /\ slotName[number[Builder]] = NoName)

\* The reservations of the log that returned a slot.
ScenOk == {i \in 1..Len(scenLog) : scenLog[i].err = "none"}

\* The reservations of the log made when as many earlier ones had succeeded
\* as the pool had free slots.
ScenLate == {i \in 1..Len(scenLog) :
                Cardinality({j \in ScenOk : j < i}) = scenFree}

\* C23 (as amended): with k free slots in the pool and no release, the
\* sequential reservations under distinct names that succeed yield distinct
\* slot ids, at most k of them succeed, and every attempt made once k have
\* succeeded fails with ResourceExhausted (k = 2: the third; k = 1: the second).
C23_SuccessesBoundedByFree ==
    scenFree >= 1 =>
        /\ \A i, j \in ScenOk : i # j => scenLog[i].slot # scenLog[j].slot
        /\ Cardinality(ScenOk) <= scenFree
        /\ \A i \in ScenLate : scenLog[i].err = "exhausted"

\* Two free slots: two reservations succeeded and the third was refused.
C23_Witness ==
    /\ scenFree = 2
    /\ Len(scenLog) = 3
    /\ ScenOk = {1, 2}
    /\ scenLog[3].err = "exhausted"

\* C23 (as stated): with one free slot, after a first successful reservation
\* the second succeeds too, on another slot, and the third fails with
\* ResourceExhausted.
C23_OneFreeTwoSucceed ==
    (scenFree = 1 /\ Len(scenLog) >= 2 /\ 1 \in ScenOk) =>
        /\ 2 \in ScenOk
        /\ scenLog[1].slot # scenLog[2].slot
        /\ Len(scenLog) >= 3 => scenLog[3].err = "exhausted"

\* A statement of a mask property that reads or writes a mask variable of the
\* slot runs.
MaskIO == mop.at \in {"clear", "loop", "read"} /\ mop' # mop

\* C24: no mask bit and no combined mask variable of the slot is read or
\* written while the bit-mask cache of the handle is still empty.
C24_CacheBeforeMaskIO ==
    [][MaskIO => DOMAIN bit_mask_name_cache # {}]_vars

C26_MappingRoundTrip ==
    (/\ mop.at = "idle"
     /\ mopLast.form = "dict"
     /\ mopLast.err = "none"
     /\ maskReadField = mopLast.f)
        => maskRead = mopLast.on

\* C27: after timeslots was set to a slot number or to a set S of slot numbers,
\* every position 1..6 has received exactly one write, true iff the position
\* is in S, and the assignment has raised no error.
C27_OneWritePerTimeslot ==
    tsSet.done =>
        /\ tsSet.err = "none"
        /\ \A ts \in Timeslots : tsSet.writes[ts] = <<ts \in tsSet.arg>>

\* C28: reading timeslots returns a list that holds exactly the positions ts
\* whose bit ts-1 is set in the timeslot mask.
C28_TimeslotsReadAsList ==
    tsGet.done =>
        /\ tsGet.isList
        /\ tsGet.items = {ts \in Timeslots : BitOf(tsGet.mask, ts - 1) = 1}

\* The user callback in flight is called, after the setter that replaced or
\* removed it on its property has returned.
CalledAfterTeardown ==
    /\ cbFlight # NoFlight
    /\ cbFlight' = NoFlight
    /\ cbPc = "idle"
    /\ cb[cbFlight.p] # cbFlight.f

\* C29: once the callback of a property has been replaced or removed, the
\* previous user callback is never called again, whenever the notification
\* arrives.
C29_NoCallAfterTeardown == [][~CalledAfterTeardown]_vars

\* The step of a start with a callback that writes 1 to the control variable.
ArmingWrite ==
    /\ stStep.i \in DOMAIN StartOrder
    /\ stStep.cb # None
    /\ StartOrder[stStep.i] = "put"
    /\ stStep' # stStep

\* A start with a callback has written the control variable and has not yet
\* subscribed the callback.
ArmedUnsubscribed ==
    /\ stStep.cb # None
    /\ "put" \in stStep.done
    /\ "subscribe" \notin stStep.done

\* C30: start(callback) subscribes the completion callback before it writes
\* the control variable, so the acquired count never changes while a start has
\* armed the slot and not yet subscribed its callback.
C30_SubscribedBeforeArming ==
    [][/\ ArmingWrite => "subscribe" \in stStep.done
       /\ cnt' # cnt => ~ArmedUnsubscribed]_vars

\* A start has subscribed its callback and has not yet armed the slot.
C30_Witness ==
    /\ stStep.cb # None
    /\ "subscribe" \in stStep.done
    /\ "put" \notin stStep.done
    /\ ctrl = 0
    /\ \E sub \in doneSubs : sub.id = startId

\* The step in which the reservation of the builder returns a slot id.
ReturnsSlot == pc[Builder] = "scan" /\ pc'[Builder] = "ready"

\* The reservation of the builder reads the name of a slot.
ReadsSlotName == pc[Builder] = "scan" /\ num'[Builder] # num[Builder]

\* C31: a successful reservation has written the desired name to the claim
\* variable before it reads any slot name; the slot id it returns lies in the
\* range of the pool, its name was read equal to the desired name, it is the
\* lowest such slot of the pass that found it, and right after the call its
\* name variable holds the desired name.
C31_ReturnsLowestMatch ==
    [][/\ (ReadsSlotName \/ ReturnsSlot) => resLog.wrote
       /\ ReturnsSlot =>
            /\ number'[Builder] \in Slots(kind)
            /\ slotName[number'[Builder]] = name[Builder]
            /\ slotName'[number'[Builder]] = name[Builder]
            /\ resLog.seen = FirstSlot(kind)..(number'[Builder] - 1)]_vars

\* A reservation has returned a slot that is not the first of the pool.
C31_Witness ==
    /\ pc[Builder] = "ready"
    /\ number[Builder] = LastSlot(kind)
    /\ slotName[number[Builder]] \in Names
    /\ resLog.wrote
    /\ resLog.seen = FirstSlot(kind)..(LastSlot(kind) - 1)

\* wait_for_complete returns.
WaitReturns == waitPc = "waiting" /\ waitPc' = "returned"

\* C32: wait_for_complete returns only when is_acquisition_complete has been
\* seen true, and when the acquisition ends up complete for good a wait in
\* progress ends; the measurement count may be bounded or -1.
C32_WaitEndsWhenComplete ==
    /\ [][WaitReturns => is_acquisition_complete]_vars
    /\ (<>[]is_acquisition_complete) => [](waitPc = "waiting" => <>(waitPc # "waiting"))

\* A wait on a rolling acquisition (count -1) has returned.
C32_Witness ==
    /\ waitPc = "returned"
    /\ cfg["MEASCNT"] = MeasLow
    /\ cntmax < 0

\* is_acquisition_complete() answers true after a start() that returned True.
ReportsComplete ==
    /\ acqPc = "started"
    /\ polled' = "true"
    /\ polled' # polled \/ acqPc' # acqPc

\* C33: after start() has returned True, is_acquisition_complete() answers
\* true only when the acquisition armed by that start has finished, never on
\* what a previous acquisition of the slot left behind.
C33_NoStaleCompletion ==
    [][ReportsComplete => acqGen = "finished"]_vars

\* The caches of the handle are populated.
CachePopulated == DOMAIN bit_mask_name_cache # {}

\* C34: once populated, the forward and the reverse cache are inverses of
\* each other and cover every mask bit of the resource type, so every bit that
\* is set resolves to a name when the masks are read, repeated descriptors
\* included.
C34_CachesAreInverses ==
    CachePopulated =>
        /\ DOMAIN bit_mask_reverse_cache = MaskBits(kind)
        /\ \A b \in DOMAIN bit_mask_reverse_cache :
              /\ bit_mask_reverse_cache[b] \in DOMAIN bit_mask_name_cache
              /\ bit_mask_name_cache[bit_mask_reverse_cache[b]] = b
        /\ \A nm \in DOMAIN bit_mask_name_cache :
              /\ bit_mask_name_cache[nm] \in DOMAIN bit_mask_reverse_cache
              /\ bit_mask_reverse_cache[bit_mask_name_cache[nm]] = nm
        /\ descRead.err = "none"

\* C35: after a destination_masks write of a BSABuffer, in list or in mapping
\* form, bit n of DESTMASK is set exactly when the selection variable DST{n}
\* is 1, for every bit of the cache.
C35_DestmaskAgreesWithDst ==
    (/\ kind = "BSA"
     /\ mop.at = "idle"
     /\ mopLast.f = "DST"
     /\ mopLast.err = "none")
        => \A n \in MaskBits(kind) : (BitOf(destmask, n) = 1) <=> (n \in dst)

\* The reservation of client c returns the slot id s.
ReturnsId(c, s) ==
    /\ pc[c] \in Reserving
    /\ pc'[c] = "ready"
    /\ number'[c] = s

\* Slot s carried a name when the reservation of client c was called, nothing
\* was released since, and another client holds it on a handle.
HeldSinceBefore(c, s) ==
    /\ s \notin freeAtStart[c]
    /\ ~relDuring[c]
    /\ \E d \in Clients \ {c} : Held(d) /\ number[d] = s

\* C36: a reservation never returns a slot that another, un-released handle
\* held before the call began, a slot that already carries the same name
\* included.
C36_ReturnsOwnClaimOnly ==
    [][\A c \in Clients : \A s \in DOMAIN slotName :
          ReturnsId(c, s) => ~HeldSinceBefore(c, s)]_vars

----------------------------------------------------------------------------
\* A handle with callbacks is released and the slot goes to its next owner:
\* the client assigns property callbacks and starts with a completion
\* callback, releases, another client takes the slot and switches it on, and
\* the firmware counts.

RelRest == <<maskVars, ctorVars, extVars>>

\* The client assigns the callback of the control state, or takes it away.
RelAssign ==
    \E p \in {"ctrl"}, new \in {1, None} :
        /\ pc[Builder] = "ready"
        /\ CbCall(p, new)
        /\ UNCHANGED <<poolVars, RelRest, cfgVars, acqVars>>

RelRemove == CbRemove /\ UNCHANGED <<poolVars, RelRest, cfgVars, acqVars>>

RelStore == CbStore /\ UNCHANGED <<poolVars, RelRest, cfgVars, acqVars>>

RelAdd == CbAdd /\ UNCHANGED <<poolVars, RelRest, cfgVars, acqVars>>

RelConfigure ==
    /\ pc[Builder] = "ready"
    /\ acqPc = "idle"
    /\ fw = "off"
    /\ is_reserved(number[Builder])
    /\ SetCount("MEASCNT", 1)
    /\ UNCHANGED <<poolVars, RelRest, cbVars, acqVars>>

RelStart ==
    \E callback \in DoneCallbacks :
        /\ pc[Builder] = "ready"
        /\ callback # None => startId < MaxStarts
        /\ Start(Builder, callback)
        /\ UNCHANGED <<poolVars, RelRest, cfgVars, cbVars>>

RelLeave == Leave /\ UNCHANGED <<poolVars, RelRest, cfgVars, cbVars, doneVars>>

\* release() as a whole: the check of the slot id and the write to FREE.
RelRelease ==
    /\ cbPc = "idle"
    /\ release(Builder)
    /\ UNCHANGED <<RelRest, cfgVars, cbVars>>

RelTake == EnvTake /\ UNCHANGED <<RelRest, cfgVars, cbVars, acqVars>>

\* The next owner of the slot switches it on.
RelOwner ==
    /\ slotName[focus] = OtherName
    /\ ctrl = 0
    /\ fw = "off"
    /\ ctrl' = 1
    /\ UNCHANGED <<cnt, cntmax, ready, fw, callAcq, doneVars>>
    /\ UNCHANGED <<poolVars, RelRest, cfgVars, cbVars>>

RelArm ==
    /\ FwArm
    /\ IF cnt' # cnt THEN DeliverCnt(cnt') ELSE UNCHANGED doneVars
    /\ UNCHANGED <<poolVars, RelRest, cfgVars, cbVars>>

RelTick ==
    FwTick /\ DeliverCnt(cnt') /\ UNCHANGED <<poolVars, RelRest, cfgVars, cbVars>>

RelDone == FwDone /\ UNCHANGED <<poolVars, RelRest, cfgVars, cbVars, doneVars>>

NextRel ==
    \/ RelAssign
    \/ RelRemove
    \/ RelStore
    \/ RelAdd
    \/ RelConfigure
    \/ RelStart
    \/ RelLeave
    \/ RelRelease
    \/ RelTake
    \/ RelOwner
    \/ RelArm
    \/ RelTick
    \/ RelDone

SpecRel == InitLife /\ [][NextRel]_vars

\* release() has written FREE for the handle's slot.
ReleasesSlot == pc[Builder] = "ready" /\ pc'[Builder] = "released"

\* The handle has a live subscription: a property callback or a completion
\* callback that has not fired.
LiveSubscription ==
    \/ \E p \in AllCbProps : DOMAIN subs[p] # {}
    \/ doneSubs # {}

\* The released slot belongs to its next owner.
OwnedByNext == pc[Builder] = "released" /\ slotName[focus] = OtherName

\* C37: release() leaves the handle without a live subscription, and what the
\* next owner does to the slot invokes no completion callback of the client
\* that released it.
C37_ReleaseDropsSubscriptions ==
    [][/\ ReleasesSlot => ~LiveSubscription'
       /\ OwnedByNext => doneFired' = doneFired]_vars

\* The second half on its own: a completion callback of the releasing client
\* fires on a count the next owner's acquisition produced.
C37_NextOwnerSilent ==
    [][OwnedByNext => doneFired' = doneFired]_vars

----------------------------------------------------------------------------
\* The constructor statement by statement: the reservation, then the
\* installation of the callbacks and the initial writes in the order of the
\* class, while the IOC serves the claim and the monitor events of the
\* written fields come in.

InstRest == <<withVars, scenVars, mopVars, tsVars, cbFlight, stStep, resLog,
              waitPc, acqGen, maskDescs, descRead>>

\* The statements after the reservation: EventDefinition assigns the
\* callbacks while it creates the PV objects and writes the configuration
\* last; BSABuffer writes the configuration and then assigns the callbacks.
InstOrder ==
    IF kind = "EDEF" THEN <<"callbacks", "avg", "measurements", "masks">>
    ELSE <<"avg", "measurements", "masks", "callbacks">>

\* The field a constructor statement writes, and the property whose callback
\* follows a field.
InstField(st) == IF st = "avg" THEN "AVGCNT" ELSE "MEASCNT"

CbOf(f) == IF f = "AVGCNT" THEN "avg" ELSE "measurements"

\* The mask arguments: none, a known name, a name the cache does not hold.
InstMasks == {"none", "known", "unknown"}

\* The constructor goes on once the reservation has returned the slot.
InstEnter ==
    /\ pc[Builder] = "ready"
    /\ number[Builder] = focus
    /\ inst.at = "idle"
    /\ \E f \in {None, 1}, m \in InstMasks :
          inst' = [at |-> "running", i |-> 1, cb |-> f, masks |-> m]
    /\ UNCHANGED <<poolVars, maskVars, cfgVars, ctorVars, cbVars, acqVars,
                   InstRest>>

\* "if avg_callback is not None: self.avg_callback = avg_callback" and the
\* same for measurements_callback.
InstCallbacks ==
    /\ IF inst.cb = None
       THEN UNCHANGED <<cb, cbIndex, subs>>
       ELSE /\ subs' = [p \in AllCbProps |->
                           IF p \in {"avg", "measurements"}
                           THEN AddSub(subs[p], inst.cb) ELSE subs[p]]
            /\ cbIndex' = [p \in AllCbProps |->
                              IF p \in {"avg", "measurements"}
                              THEN AddIndex(subs[p]) ELSE cbIndex[p]]
            /\ cb' = [p \in AllCbProps |->
                         IF p \in {"avg", "measurements"}
                         THEN inst.cb ELSE cb[p]]
    /\ inst' = [inst EXCEPT !.i = @ + 1]
    /\ UNCHANGED <<cbPc, cbProp, cbNew, cbSeen, maskVars, cfgVars>>

\* "self.n_avg = avg" / "self.n_measurements = measurements"
InstCount(f) ==
    /\ \E v \in CfgValues(f) : SetCount(f, v)
    /\ inst' = [inst EXCEPT !.i = @ + 1]
    /\ UNCHANGED <<maskVars, cbVars>>

\* "if inclusion_masks is not None: self.inclusion_masks = inclusion_masks" /
\* "if destination_masks is not None: ...": the setter raises on a name the
\* cache does not hold.
InstMaskWrite ==
    /\ IF inst.masks = "none"
       THEN /\ inst' = [inst EXCEPT !.i = @ + 1]
            /\ UNCHANGED maskVars
       ELSE IF inst.masks = "unknown"
       THEN /\ inst' = [inst EXCEPT !.at = "failed"]
            /\ UNCHANGED maskVars
       ELSE /\ \E f \in MaskFields(kind), b \in MaskBits(kind) :
                  SetMasks(f, {MaskDesc(b)})
            /\ inst' = [inst EXCEPT !.i = @ + 1]
    /\ UNCHANGED <<cfgVars, cbVars>>

InstStatement ==
    /\ inst.at = "running"
    /\ inst.i \in DOMAIN InstOrder
    /\ LET st == InstOrder[inst.i]
       IN  IF st = "callbacks" THEN InstCallbacks
           ELSE IF st = "masks" THEN InstMaskWrite
           ELSE InstCount(InstField(st))
    /\ UNCHANGED <<poolVars, ctorVars, acqVars, InstRest>>

\* The constructor returns the handle.
InstReturn ==
    /\ inst.at = "running"
    /\ inst.i \notin DOMAIN InstOrder
    /\ inst' = [inst EXCEPT !.at = "done"]
    /\ UNCHANGED <<poolVars, maskVars, cfgVars, ctorVars, cbVars, acqVars,
                   InstRest>>

\* The monitor event of a written field reaches the PV object, which calls
\* the callbacks subscribed to it.
InstMonitor ==
    /\ \E f \in CfgFields : MonitorEvent(f)
    /\ UNCHANGED <<poolVars, maskVars, ctorVars, cbVars, acqVars, extVars>>

InstIoc == IocClaim /\ UNCHANGED CtorRest

InstReserve ==
    /\ inst.at = "idle"
    /\ \E n \in Names : ReserveCall(Builder, n)
    /\ UNCHANGED CtorRest

InstPut == PutName(Builder) /\ UNCHANGED CtorRest

InstScan == ScanStep(Builder) /\ UNCHANGED CtorRest

InstFinal == FinalCheck(Builder) /\ UNCHANGED CtorRest

NextInst ==
    \/ InstIoc
    \/ InstReserve
    \/ InstPut
    \/ InstScan
    \/ InstFinal
    \/ InstEnter
    \/ InstStatement
    \/ InstReturn
    \/ InstMonitor

SpecInst == InitCtor /\ [][NextInst]_vars

\* A monitor event that carries a value the constructor wrote invokes a
\* callback the constructor installed.
InvokedByInitialWrite(f) ==
    /\ inst.at \in {"running", "done"}
    /\ cfgWritten[f]
    /\ mon'[f] # mon[f]
    /\ DOMAIN subs[CbOf(f)] # {}

\* C38: no callback passed to the constructor is invoked because of the
\* constructor's own initial writes.
C38_CallbacksMissInitialWrites ==
    [][\A f \in CfgFields : ~InvokedByInitialWrite(f)]_vars

\* C39: a constructor that failed after the reservation has released the
\* slot it claimed.
C39_FailedCtorFreesSlot ==
    inst.at = "failed" => slotName[number[Builder]] = NoName

\* C40: a mask write that failed on an unknown name has left every mask
\* variable of the slot as it was when the write was called.
C40_FailedWriteChangesNothing ==
    (mop.at = "idle" /\ mopLast.err = "KeyError") => mopLast.same

====
